---- MODULE Spec2Model ----
(***************************************************************************)
(* Year aggregation of agency metric records in the eCFR dashboard.       *)
(*                                                                         *)
(* The module models the aggregation routines of the detail page and the  *)
(* agency grid as operators over a fetched record array, and the          *)
(* environment they read besides their argument: the browser's time zone  *)
(* and its clock.                                                          *)
(***************************************************************************)
EXTENDS Integers, Sequences, FiniteSets, TLC

(***************************************************************************)
(* Bounds of the model.                                                    *)
(***************************************************************************)
\* Longest record array a query returns.
MaxRecs == 3
\* Last calendar year the browser clock reaches.
MaxYear == 2018
\* Significand width of a Number.  IEEE-754 binary64 has 53 bits; the model
\* keeps round-to-nearest, ties-to-even, on a narrower significand.
MantBits == 3

(***************************************************************************)
(* Program constants.                                                      *)
(***************************************************************************)
\* generateYearRange(2016, currentYear)
StartYear == 2016

\* JSON null, as a column value of a fetched row.
Null == -1
\* The year of an Invalid Date: getFullYear() returns NaN.
NaN == -2

(***************************************************************************)
(* Numbers.  Counts are integers far below 2^53, so the code's additions  *)
(* on them are exact and are modelled by integer addition.  Scores are    *)
(* fractions: a score value is a float [m, e] standing for m * 2^e with   *)
(* 2^(MantBits-1) <= m < 2^MantBits (or m = 0, e = 0), and every          *)
(* operation rounds its exact result to the nearest float, ties to even.  *)
(***************************************************************************)
RECURSIVE Pow2(_)
Pow2(n) == IF n = 0 THEN 1 ELSE 2 * Pow2(n - 1)

FZero == [m |-> 0, e |-> 0]

\* The float nearest to (p / q) * 2^e, for p >= 0 and q > 0.
RECURSIVE FRound(_, _, _)
FRound(p, q, e) ==
  IF p = 0 THEN FZero
  ELSE IF p >= q * Pow2(MantBits) THEN FRound(p, 2 * q, e + 1)
  ELSE IF p < q * Pow2(MantBits - 1) THEN FRound(2 * p, q, e - 1)
  ELSE LET m == p \div q
           r == p % q
           up == (2 * r > q) \/ (2 * r = q /\ m % 2 = 1)
           m1 == IF up THEN m + 1 ELSE m
       IN IF m1 = Pow2(MantBits) THEN [m |-> Pow2(MantBits - 1), e |-> e + 1]
          ELSE [m |-> m1, e |-> e]

\* Numerator and denominator of the exact value of a float.
FNum(a) == IF a.e >= 0 THEN a.m * Pow2(a.e) ELSE a.m
FDen(a) == IF a.e >= 0 THEN 1 ELSE Pow2(0 - a.e)

\* A JSON number read into a Number.
ToNumber(n) == FRound(n, 1, 0)

\* a + b on Numbers.
FAdd(a, b) == FRound(FNum(a) * FDen(b) + FNum(b) * FDen(a), FDen(a) * FDen(b), 0)

\* a / k on Numbers, k a positive count.
FDiv(a, k) == FRound(FNum(a), FDen(a) * k, 0)

\* value || 0 : null (and 0) give 0.
OrZero(v) == IF v = Null THEN 0 ELSE v

(***************************************************************************)
(* Dates.  metrics_date is a date-only string "YYYY-MM-DD", written here  *)
(* [y, d] with d the day of the year (leap days left out), or a string    *)
(* that does not parse.  new Date(s) reads a date-only string as midnight *)
(* UTC; getFullYear() answers in the browser's local time.  Instants are  *)
(* counted in hours from the start of StartYear, UTC.                      *)
(***************************************************************************)
HoursPerYear == 365 * 24

InvalidDate == [y |-> 0, d |-> 0]

\* new Date(s).getTime(), NaN for an Invalid Date.
DateParse(s) ==
  IF s = InvalidDate THEN NaN
  ELSE ((s.y - StartYear) * 365 + (s.d - 1)) * 24

VARIABLES
  tz,                \* the browser's offset from UTC, in hours
  now,               \* the calendar year the browser clock shows
  metricsData,       \* the array the metric query returned
  passed,            \* the contents of that array when the last routine was called
  routine,           \* the aggregation routine that ran last
  rangeEnd,          \* currentYear as read by the last gap-filled aggregation
  aggregatedMetrics, \* the yearly series the last detail-page routine returned
  metricsMap,        \* the per-agency totals the grid built last
  route,             \* the component the router mounted, and its agencyId
  pc,                \* where the component's load stands
  loading,           \* the component's loading state
  error,             \* the component's error state
  issued,            \* requests issued by the load, per data need
  failed,            \* the data needs whose request returned an error
  requestedAfterFailure, \* a request was issued after another had failed
  aggregations,      \* times the load ran its aggregation step
  agencyRecord,      \* the detail page's agency state
  agencies,          \* the grid's agencies state
  latestMetrics,     \* the detail page's latestMetrics state
  chartMetrics,      \* the chart's metrics state
  metricParam,       \* the :metric parameter of the URL
  lastNavigate,      \* how the analyzer page navigated last
  selectedAgenciesForTrend, \* the agencies selected for trend comparison
  effectPending,     \* the analyzer page's effect has yet to run for this render
  rendered,          \* selectedMetric and selectedMetricInfo of the last render
  selectedMetricKey, \* the grid's selectedMetric state
  searchQuery,       \* the grid's searchQuery state
  filteredAgencies,  \* filteredAgencies of the grid's last render
  sortedAgencies,    \* sortedAgencies of the grid's last render
  endValue,          \* the endValue the count-up hook was last rendered with
  countState,        \* the hook's count state
  countRef,          \* countRef.current
  frameRef,          \* frameRef.current, 0 for undefined
  pendingFrames,     \* the animation frame callbacks that are requested
  hookEffect,        \* the hook's effect has yet to run for the last render
  effectGen,         \* effects of the hook run so far
  nextFrame,         \* the id the next requestAnimationFrame returns
  changes,           \* changes of endValue so far
  staleWrite,        \* a callback wrote count after its effect was cleaned up
  inFlight,          \* the runs of fetchAgencyData a detail page started
  held               \* the agency ids whose data the detail page's state holds

\* The state of a page load.
loadVars == <<route, pc, loading, error, issued, failed, requestedAfterFailure,
              aggregations, agencyRecord, agencies, latestMetrics,
              chartMetrics>>

\* The state of the analyzer page.
appVars == <<metricParam, lastNavigate, selectedAgenciesForTrend,
             effectPending, rendered>>

\* The view state of the agency grid.
gridViewVars == <<selectedMetricKey, searchQuery, filteredAgencies, sortedAgencies>>

\* The state of a count-up hook.
countUpVars == <<endValue, countState, countRef, frameRef, pendingFrames, hookEffect,
                 effectGen, nextFrame, changes, staleWrite>>

\* The loads of a detail page whose agencyId changes.
overlapVars == <<inFlight, held>>

vars == <<tz, now, metricsData, passed, routine, rangeEnd, aggregatedMetrics,
          metricsMap, loadVars, appVars, gridViewVars, countUpVars, overlapVars>>

\* new Date(t).getFullYear(), for t an instant in hours or NaN.
getFullYear(t) ==
  IF t = NaN THEN NaN
  ELSE StartYear + ((t + tz) \div HoursPerYear)

\* new Date(metric.metrics_date).getFullYear()
metricYear(metric) == getFullYear(DateParse(metric.metrics_date))

(***************************************************************************)
(* Rows of agency_regulation_document_historical_metrics.  A row carries  *)
(* every column one of the routines reads; a column value is a number or  *)
(* Null.                                                                   *)
(***************************************************************************)
MidYearDay == 180

MidFirstYear == [y |-> StartYear, d |-> MidYearDay]
NewYearsDay == [y |-> StartYear + 2, d |-> 1]

\* A score that is a float, and that absorbs an added 1 by rounding.
Big == Pow2(MantBits)

Row(agency, date, counts, scores, legacy) ==
  [agency_id |-> agency, metrics_date |-> date,
   word_count |-> counts[1], paragraph_count |-> counts[2],
   sentence_count |-> counts[3], section_count |-> counts[4],
   combined_readability_score |-> scores[1],
   flesch_reading_ease |-> scores[2],
   smog_index_score |-> scores[3],
   automated_readability_score |-> scores[4],
   readability_score |-> legacy[1],
   language_complexity_score |-> legacy[2],
   simplicity_score |-> legacy[3]]

\* The rows of the table: two agencies; two rows sharing a date, a row
\* dated on a later New Year's Day, a row whose date does not parse, and
\* null columns.
AgencyMetric ==
  { Row(1, MidFirstYear, <<100, 10, 20, 3>>, <<Big, 1, 2, 3>>, <<Big, 2, 1>>),
    Row(1, MidFirstYear, <<50, Null, 8, 1>>, <<1, Big, Null, 2>>, <<1, Null, 0>>),
    Row(2, NewYearsDay,  <<30, Null, 0, Null>>, <<Null, 3, Null, 1>>, <<Null, 1, 0>>),
    Row(2, InvalidDate,  <<30, Null, 0, Null>>, <<Null, 3, Null, 1>>, <<Null, 1, 0>>) }

\* Every array of at most MaxRecs rows: what .select() can return.
MetricArrays == UNION { [1..n -> AgencyMetric] : n \in 0..MaxRecs }

\* .order('metrics_date', { ascending: true }) : the rows come in the order
\* of their dates; rows of one date come in any order, and so does a row
\* whose date the browser cannot parse.  (The detail page's queries keep
\* the rows of one agency; its aggregation never reads agency_id.)
orderedByDate(rows) ==
  \A i, j \in 1..Len(rows) :
    (i < j /\ DateParse(rows[i].metrics_date) # NaN
           /\ DateParse(rows[j].metrics_date) # NaN)
      => DateParse(rows[i].metrics_date) <= DateParse(rows[j].metrics_date)

\* Offsets of the browser's time zone: west of Greenwich and at it.  (East
\* of Greenwich a date-only string falls in the year it names, as at 0.)
TimeZones == {-5, 0}

\* Years the browser clock can show.
ClockYears == (StartYear - 1)..MaxYear

(***************************************************************************)
(* The gap-filled aggregation of the detail page.                          *)
(***************************************************************************)
\* The loop with its bound written year < endYear.
generateYearRangeExclusive(startYear, endYear) ==
  [i \in 1..(IF endYear > startYear THEN endYear - startYear ELSE 0)
     |-> startYear + i - 1]

\* for (let year = startYear; year <= endYear; year++) years.push(year)
generateYearRange(startYear, endYear) ==
  [i \in 1..(IF endYear >= startYear THEN endYear - startYear + 1 ELSE 0)
     |-> startYear + i - 1]

\* The bucket a year gets when its first record is met.
NewBucket ==
  [count |-> 0, word_count |-> 0, paragraph_count |-> 0, sentence_count |-> 0,
   combined_readability_score |-> FZero, flesch_reading_ease |-> FZero,
   smog_index_score |-> FZero, automated_readability_score |-> FZero]

\* The bucket initialised for every record, the guard left out.
bucketAlwaysNew(acc, year) == NewBucket

\* if (!acc[year]) acc[year] = {count: 0, ...}: the bucket the record is
\* added to.
bucketOf(acc, year) == IF year \in DOMAIN acc THEN acc[year] ELSE NewBucket

\* The callback of metrics.reduce: add one record to its year's bucket.
\* acc is the object of buckets, a function from year keys to buckets.
groupByYear(acc, metric) ==
  LET year == metricYear(metric)
      b == bucketOf(acc, year)
      nb == [count |-> b.count + 1,
             word_count |-> b.word_count + OrZero(metric.word_count),
             paragraph_count |-> b.paragraph_count + OrZero(metric.paragraph_count),
             sentence_count |-> b.sentence_count + OrZero(metric.sentence_count),
             combined_readability_score |->
               FAdd(b.combined_readability_score,
                    ToNumber(OrZero(metric.combined_readability_score))),
             flesch_reading_ease |->
               FAdd(b.flesch_reading_ease, ToNumber(OrZero(metric.flesch_reading_ease))),
             smog_index_score |->
               FAdd(b.smog_index_score, ToNumber(OrZero(metric.smog_index_score))),
             automated_readability_score |->
               FAdd(b.automated_readability_score,
                    ToNumber(OrZero(metric.automated_readability_score)))]
  IN [k \in (DOMAIN acc) \cup {year} |-> IF k = year THEN nb ELSE acc[k]]

\* metrics.reduce(groupByYear, {})
RECURSIVE yearlyMetricsFrom(_, _, _)
yearlyMetricsFrom(acc, metrics, i) ==
  IF i > Len(metrics) THEN acc
  ELSE yearlyMetricsFrom(groupByYear(acc, metrics[i]), metrics, i + 1)

\* The reduce started at the second record.
yearlyMetricsSkipFirst(metrics) == yearlyMetricsFrom(<<>>, metrics, 2)

yearlyMetrics(metrics) == yearlyMetricsFrom(<<>>, metrics, 1)

\* The last known scores initialised to 1 instead of 0.
RunningTotalsFromOne ==
  [cumulativeWordCount |-> 0, cumulativeParagraphCount |-> 0,
   cumulativeSentenceCount |-> 0,
   lastReadabilityScore |-> ToNumber(1), lastFleschScore |-> ToNumber(1),
   lastSmogScore |-> ToNumber(1), lastAutomatedScore |-> ToNumber(1),
   out |-> <<>>]

\* The running totals and last known scores before the first year.
RunningTotals ==
  [cumulativeWordCount |-> 0, cumulativeParagraphCount |-> 0,
   cumulativeSentenceCount |-> 0,
   lastReadabilityScore |-> FZero, lastFleschScore |-> FZero,
   lastSmogScore |-> FZero, lastAutomatedScore |-> FZero,
   out |-> <<>>]

\* The running total assigned instead of added to.
runningTotalReset(cumulative, yearTotal) == yearTotal

\* The running total left as it was.
runningTotalStale(cumulative, yearTotal) == cumulative

\* cumulativeWordCount += yearData.word_count
runningTotal(cumulative, yearTotal) == cumulative + yearTotal

\* A year without records given the score 0 instead of the last known one.
averageOrZero(sum, count, last) == IF count > 0 THEN FDiv(sum, count) ELSE FZero

\* yearData.count > 0 ? sum / yearData.count : last
averageOrLast(sum, count, last) == IF count > 0 THEN FDiv(sum, count) ELSE last

\* The callback of allYears.map: emit the entry of one year and update the
\* running totals.  st holds the closure's let-variables and the entries
\* emitted so far; buckets is the result of the reduce.
continuousYear(st, year, buckets) ==
  LET yearData ==
        IF year \in DOMAIN buckets THEN buckets[year]
        ELSE [count |-> 0, word_count |-> 0, paragraph_count |-> 0,
              sentence_count |-> 0,
              combined_readability_score |-> st.lastReadabilityScore,
              flesch_reading_ease |-> st.lastFleschScore,
              smog_index_score |-> st.lastSmogScore,
              automated_readability_score |-> st.lastAutomatedScore]
      cumulativeWordCount == runningTotal(st.cumulativeWordCount, yearData.word_count)
      cumulativeParagraphCount ==
        runningTotal(st.cumulativeParagraphCount, yearData.paragraph_count)
      cumulativeSentenceCount ==
        runningTotal(st.cumulativeSentenceCount, yearData.sentence_count)
      avgCombined ==
        averageOrLast(yearData.combined_readability_score, yearData.count, st.lastReadabilityScore)
      avgFlesch ==
        averageOrLast(yearData.flesch_reading_ease, yearData.count, st.lastFleschScore)
      avgSmog ==
        averageOrLast(yearData.smog_index_score, yearData.count, st.lastSmogScore)
      avgAutomated ==
        averageOrLast(yearData.automated_readability_score, yearData.count, st.lastAutomatedScore)
      known == yearData.count > 0
  IN [cumulativeWordCount |-> cumulativeWordCount,
      cumulativeParagraphCount |-> cumulativeParagraphCount,
      cumulativeSentenceCount |-> cumulativeSentenceCount,
      lastReadabilityScore |-> IF known THEN avgCombined ELSE st.lastReadabilityScore,
      lastFleschScore |-> IF known THEN avgFlesch ELSE st.lastFleschScore,
      lastSmogScore |-> IF known THEN avgSmog ELSE st.lastSmogScore,
      lastAutomatedScore |-> IF known THEN avgAutomated ELSE st.lastAutomatedScore,
      out |-> Append(st.out,
                [year |-> year,
                 word_count |-> yearData.word_count,
                 cumulative_word_count |-> cumulativeWordCount,
                 paragraph_count |-> yearData.paragraph_count,
                 cumulative_paragraph_count |-> cumulativeParagraphCount,
                 sentence_count |-> yearData.sentence_count,
                 cumulative_sentence_count |-> cumulativeSentenceCount,
                 avg_combined_readability_score |-> avgCombined,
                 avg_flesch_reading_ease |-> avgFlesch,
                 avg_smog_index_score |-> avgSmog,
                 avg_automated_readability_score |-> avgAutomated])]

\* allYears.map(continuousYear), with the closure state threaded through.
RECURSIVE continuousFrom(_, _, _, _)
continuousFrom(st, allYears, buckets, i) ==
  IF i > Len(allYears) THEN st.out
  ELSE continuousFrom(continuousYear(st, allYears[i], buckets), allYears, buckets, i + 1)

\* aggregateMetricsByYear(metrics) of the gap-filled detail page.  The end
\* of the range is read from the clock inside the function.
aggregateMetricsByYear(metrics) ==
  LET currentYear == now
      allYears == generateYearRange(StartYear, currentYear)
  IN continuousFrom(RunningTotals, allYears, yearlyMetrics(metrics), 1)

(***************************************************************************)
(* The two earlier aggregations of the detail page: cumulative totals     *)
(* over the years that have records, and plain per-year averages.          *)
(***************************************************************************)
\* acc.x += metric.x : a null operand counts as 0.
NullAsZero(v) == IF v = Null THEN 0 ELSE v

\* Number(x.toFixed(2)): the decimal n/100 nearest to x (the larger n on a
\* tie), read back into a Number.
toFixed2(x) == FRound((200 * FNum(x) + FDen(x)) \div (2 * FDen(x)), 100, 0)

\* Math.round(sum / count): halves round up.
MathRound(sum, count) == (2 * sum + count) \div (2 * count)

NewLegacyBucket ==
  [count |-> 0, word_count |-> 0, paragraph_count |-> 0, sentence_count |-> 0,
   section_count |-> 0, language_complexity_score |-> FZero,
   readability_score |-> FZero, simplicity_score |-> FZero]

\* One record put in the place of a bucket's counts, not added to them.
addToBucketLast(b, metric) ==
  [count |-> b.count + 1,
   word_count |-> NullAsZero(metric.word_count),
   paragraph_count |-> NullAsZero(metric.paragraph_count),
   sentence_count |-> NullAsZero(metric.sentence_count),
   section_count |-> NullAsZero(metric.section_count),
   language_complexity_score |->
     FAdd(b.language_complexity_score,
          ToNumber(NullAsZero(metric.language_complexity_score))),
   readability_score |->
     FAdd(b.readability_score, ToNumber(NullAsZero(metric.readability_score))),
   simplicity_score |->
     FAdd(b.simplicity_score, ToNumber(NullAsZero(metric.simplicity_score)))]

\* One record added to a bucket of the earlier variants.
addToBucket(b, metric) ==
  [count |-> b.count + 1,
   word_count |-> b.word_count + NullAsZero(metric.word_count),
   paragraph_count |-> b.paragraph_count + NullAsZero(metric.paragraph_count),
   sentence_count |-> b.sentence_count + NullAsZero(metric.sentence_count),
   section_count |-> b.section_count + NullAsZero(metric.section_count),
   language_complexity_score |->
     FAdd(b.language_complexity_score,
          ToNumber(NullAsZero(metric.language_complexity_score))),
   readability_score |->
     FAdd(b.readability_score, ToNumber(NullAsZero(metric.readability_score))),
   simplicity_score |->
     FAdd(b.simplicity_score, ToNumber(NullAsZero(metric.simplicity_score)))]

\* metrics.reduce(..., {}) of the cumulative variant: buckets keyed by year.
RECURSIVE legacyYearlyMetrics(_, _, _)
legacyYearlyMetrics(acc, metrics, i) ==
  IF i > Len(metrics) THEN acc
  ELSE LET year == metricYear(metrics[i])
           b == IF year \in DOMAIN acc THEN acc[year] ELSE NewLegacyBucket
           nb == addToBucket(b, metrics[i])
       IN legacyYearlyMetrics(
            [k \in (DOMAIN acc) \cup {year} |-> IF k = year THEN nb ELSE acc[k]],
            metrics, i + 1)

\* The entries in ascending order of year, for entries of distinct years.
RECURSIVE Ascending(_)
Ascending(entries) ==
  IF entries = {} THEN <<>>
  ELSE LET first == CHOOSE x \in entries : \A y \in entries : x.year <= y.year
       IN <<first>> \o Ascending(entries \ {first})

\* Every order of the entries.
Orders(entries) ==
  LET n == Cardinality(entries)
  IN { f \in [1..n -> entries] : \A i, j \in 1..n : i # j => f[i] # f[j] }

\* array.sort((a, b) => a.year - b.year).  With a NaN year the comparator is
\* not consistent and the order is implementation-defined.
sortByYear(entries) ==
  IF \E x \in entries : x.year = NaN THEN Orders(entries)
  ELSE { Ascending(entries) }

\* Object.entries(yearlyMetrics).map(...): one entry per year, with the
\* averages rounded to two decimals.
yearlyArray(buckets) ==
  { [year |-> y,
     word_count |-> buckets[y].word_count,
     paragraph_count |-> buckets[y].paragraph_count,
     sentence_count |-> buckets[y].sentence_count,
     section_count |-> buckets[y].section_count,
     avg_language_complexity_score |->
       toFixed2(FDiv(buckets[y].language_complexity_score, buckets[y].count)),
     avg_readability_score |->
       toFixed2(FDiv(buckets[y].readability_score, buckets[y].count)),
     avg_simplicity_score |->
       toFixed2(FDiv(buckets[y].simplicity_score, buckets[y].count))]
    : y \in DOMAIN buckets }

\* yearlyArray.map(...) with the four running totals of the closure.
RECURSIVE cumulativeFrom(_, _, _, _)
cumulativeFrom(tot, sorted, i, out) ==
  IF i > Len(sorted) THEN out
  ELSE LET yearData == sorted[i]
           cumulativeWordCount == tot[1] + yearData.word_count
           cumulativeParagraphCount == tot[2] + yearData.paragraph_count
           cumulativeSentenceCount == tot[3] + yearData.sentence_count
           cumulativeSectionCount == tot[4] + yearData.section_count
       IN cumulativeFrom(
            <<cumulativeWordCount, cumulativeParagraphCount,
              cumulativeSentenceCount, cumulativeSectionCount>>,
            sorted, i + 1,
            Append(out,
              [year |-> yearData.year,
               word_count |-> yearData.word_count,
               cumulative_word_count |-> cumulativeWordCount,
               paragraph_count |-> yearData.paragraph_count,
               cumulative_paragraph_count |-> cumulativeParagraphCount,
               sentence_count |-> yearData.sentence_count,
               cumulative_sentence_count |-> cumulativeSentenceCount,
               section_count |-> yearData.section_count,
               cumulative_section_count |-> cumulativeSectionCount,
               avg_language_complexity_score |-> yearData.avg_language_complexity_score,
               avg_readability_score |-> yearData.avg_readability_score,
               avg_simplicity_score |-> yearData.avg_simplicity_score]))

\* aggregateMetricsByYear(metrics) of the cumulative variant: the arrays it
\* can return.
aggregateMetricsByYearCumulative(metrics) ==
  { cumulativeFrom(<<0, 0, 0, 0>>, sorted, 1, <<>>) :
      sorted \in sortByYear(yearlyArray(legacyYearlyMetrics(<<>>, metrics, 1))) }

\* yearMap.forEach(...): the entries of the per-year variant, whose counts
\* are per-record means rounded to integers.
averagedArray(buckets) ==
  { [year |-> y,
     word_count |-> MathRound(buckets[y].word_count, buckets[y].count),
     paragraph_count |-> MathRound(buckets[y].paragraph_count, buckets[y].count),
     sentence_count |-> MathRound(buckets[y].sentence_count, buckets[y].count),
     section_count |-> MathRound(buckets[y].section_count, buckets[y].count),
     language_complexity_score |->
       toFixed2(FDiv(buckets[y].language_complexity_score, buckets[y].count)),
     readability_score |->
       toFixed2(FDiv(buckets[y].readability_score, buckets[y].count)),
     simplicity_score |->
       toFixed2(FDiv(buckets[y].simplicity_score, buckets[y].count))]
    : y \in DOMAIN buckets }

\* aggregateMetricsByYear(metrics) of the per-year variant: the arrays it
\* can return.
aggregateMetricsByYearAverages(metrics) ==
  sortByYear(averagedArray(legacyYearlyMetrics(<<>>, metrics, 1)))

(***************************************************************************)
(* The per-agency totals of the agency grid.                               *)
(***************************************************************************)
\* The rows in descending order of date, rows of equal date in their input
\* order.
RECURSIVE Descending(_)
Descending(rows) ==
  IF rows = <<>> THEN <<>>
  ELSE LET n == Len(rows)
           front == Descending(SubSeq(rows, 1, n - 1))
           x == rows[n]
           k == Cardinality({ i \in 1..(n - 1) :
                   DateParse(front[i].metrics_date) >= DateParse(x.metrics_date) })
       IN SubSeq(front, 1, k) \o <<x>> \o SubSeq(front, k + 1, n - 1)

\* metricsData.sort((a, b) => new Date(b.metrics_date).getTime()
\*                            - new Date(a.metrics_date).getTime()),
\* in place.  With an Invalid Date the comparator is not consistent and the
\* order is implementation-defined.
sortedMetrics(rows) ==
  IF \E i \in 1..Len(rows) : DateParse(rows[i].metrics_date) = NaN
  THEN { [i \in 1..Len(rows) |-> rows[f[i]]] :
           f \in { g \in [1..Len(rows) -> 1..Len(rows)] :
                     \A i, j \in 1..Len(rows) : i # j => g[i] # g[j] } }
  ELSE { Descending(rows) }

\* The callback of sortedMetrics.forEach: add one record to its agency.
addToAgency(map, metric) ==
  LET id == metric.agency_id
      existingMetrics ==
        IF id \in DOMAIN map THEN map[id]
        ELSE [word_count |-> 0, paragraph_count |-> 0, sentence_count |-> 0,
              combined_readability_score |-> FZero,
              flesch_reading_ease |-> FZero,
              smog_index_score |-> FZero,
              automated_readability_score |-> FZero,
              count |-> 0, year |-> metricYear(metric)]
      updated ==
        [word_count |-> existingMetrics.word_count + OrZero(metric.word_count),
         paragraph_count |->
           existingMetrics.paragraph_count + OrZero(metric.paragraph_count),
         sentence_count |->
           existingMetrics.sentence_count + OrZero(metric.sentence_count),
         combined_readability_score |->
           FAdd(existingMetrics.combined_readability_score,
                ToNumber(OrZero(metric.combined_readability_score))),
         flesch_reading_ease |->
           FAdd(existingMetrics.flesch_reading_ease,
                ToNumber(OrZero(metric.flesch_reading_ease))),
         smog_index_score |->
           FAdd(existingMetrics.smog_index_score,
                ToNumber(OrZero(metric.smog_index_score))),
         automated_readability_score |->
           FAdd(existingMetrics.automated_readability_score,
                ToNumber(OrZero(metric.automated_readability_score))),
         count |-> existingMetrics.count + 1,
         year |-> existingMetrics.year]
  IN [k \in (DOMAIN map) \cup {id} |-> IF k = id THEN updated ELSE map[k]]

RECURSIVE summedByAgency(_, _, _)
summedByAgency(map, rows, i) ==
  IF i > Len(rows) THEN map
  ELSE summedByAgency(addToAgency(map, rows[i]), rows, i + 1)

\* metricsMap.forEach(...): the score sums become averages.
averagedScores(metrics) ==
  IF metrics.count > 0
  THEN [metrics EXCEPT
          !.combined_readability_score = FDiv(@, metrics.count),
          !.flesch_reading_ease = FDiv(@, metrics.count),
          !.smog_index_score = FDiv(@, metrics.count),
          !.automated_readability_score = FDiv(@, metrics.count)]
  ELSE metrics

\* The metricsMap built from the sorted rows.
metricsMapOf(sorted) ==
  LET map == summedByAgency(<<>>, sorted, 1)
  IN [id \in DOMAIN map |-> averagedScores(map[id])]

(***************************************************************************)
(* The state machine: a query result arrives once, the clock advances,    *)
(* and a routine is applied to the fetched array when the array is one    *)
(* its page's query can return.                                            *)
(***************************************************************************)
NoResult == <<>>

\* useState<string | null>(null)
NoError == "null"

\* The data needs of a load: the agency record or list, the latest metric
\* record, the metric list.
Needs == {"agency", "latest", "metrics"}

\* No component is mounted.
NoRoute == [component |-> "none", agencyId |-> 0]

\* The state of a component as its useState calls set it up, for a route.
initialState(r) ==
  /\ route = r
  /\ pc = "mounted"
  /\ loading = TRUE
  /\ error = NoError
  /\ issued = [n \in Needs |-> 0]
  /\ failed = {}
  /\ requestedAfterFailure = FALSE
  /\ aggregations = 0
  /\ agencyRecord = "null"
  /\ agencies = NoResult
  /\ latestMetrics = NoResult
  /\ chartMetrics = NoResult

\* useParams() of a URL without :metric.
NoMetric == "undefined"

\* The view of the grid as its useState calls set it up, agencies being []:
\* useState<MetricKey>('word_count'), useState('').
gridViewInitial ==
  /\ selectedMetricKey = "word_count"
  /\ searchQuery = <<>>
  /\ filteredAgencies = <<>>
  /\ sortedAgencies = <<>>

\* No detail page has started a load; its agency, latestMetrics and
\* aggregatedMetrics states hold nobody's data (null, null, []).
noLoads ==
  /\ inFlight = <<>>
  /\ held = [agency |-> 0, latest |-> 0, series |-> 0]

\* No count-up hook is mounted.
countUpUnused ==
  /\ endValue = 0
  /\ countState = 0
  /\ countRef = 0
  /\ frameRef = 0
  /\ pendingFrames = {}
  /\ hookEffect = FALSE
  /\ effectGen = 0
  /\ nextFrame = 1
  /\ changes = 0
  /\ staleWrite = FALSE

\* The analyzer page has not been opened.
analyzerClosed ==
  /\ metricParam = NoMetric
  /\ lastNavigate = "none"
  /\ selectedAgenciesForTrend = {}
  /\ effectPending = FALSE
  /\ rendered = [selectedMetric |-> NoMetric, selectedMetricInfo |-> <<>>]

Init ==
  /\ tz \in TimeZones
  /\ now \in ClockYears
  /\ metricsData \in MetricArrays
  /\ passed = metricsData
  /\ routine = "none"
  /\ rangeEnd = 0
  /\ aggregatedMetrics = NoResult
  /\ metricsMap = NoResult
  /\ initialState(NoRoute)
  /\ analyzerClosed
  /\ countUpUnused
  /\ noLoads
  /\ gridViewInitial

\* The calendar year changes while the page is open.
Tick ==
  /\ now < MaxYear
  /\ now' = now + 1
  /\ UNCHANGED <<tz, metricsData, passed, routine, rangeEnd, aggregatedMetrics,
                 metricsMap, loadVars, appVars, gridViewVars, countUpVars, overlapVars>>

\* const aggregated = aggregateMetricsByYear(metricsData)
\* setAggregatedMetrics(aggregated)
AggregateGapFilled ==
  /\ orderedByDate(metricsData)
  /\ passed' = metricsData
  /\ routine' = "gapFilled"
  /\ rangeEnd' = now
  /\ aggregatedMetrics' = aggregateMetricsByYear(metricsData)
  /\ UNCHANGED <<tz, now, metricsData, metricsMap, loadVars, appVars, gridViewVars, countUpVars, overlapVars>>

\* The same two lines of the cumulative variant of the page.
AggregateCumulative ==
  /\ passed' = metricsData
  /\ routine' = "cumulative"
  /\ aggregatedMetrics' \in aggregateMetricsByYearCumulative(metricsData)
  /\ UNCHANGED <<tz, now, metricsData, rangeEnd, metricsMap, loadVars, appVars, gridViewVars, countUpVars, overlapVars>>

\* const aggregated = aggregateMetricsByYear(historicalData) of the
\* per-year variant of the page.
AggregateAverages ==
  /\ orderedByDate(metricsData)
  /\ passed' = metricsData
  /\ routine' = "averages"
  /\ aggregatedMetrics' \in aggregateMetricsByYearAverages(metricsData)
  /\ UNCHANGED <<tz, now, metricsData, rangeEnd, metricsMap, loadVars, appVars, gridViewVars, countUpVars, overlapVars>>

\* The grid sorts the fetched array in place and sums it per agency.
AggregateGrid ==
  /\ passed' = metricsData
  /\ routine' = "grid"
  /\ metricsData' \in sortedMetrics(metricsData)
  /\ metricsMap' = metricsMapOf(metricsData')
  /\ UNCHANGED <<tz, now, rangeEnd, aggregatedMetrics, loadVars, appVars, gridViewVars, countUpVars, overlapVars>>

\* The gap-filled detail page.
Next ==
  \/ Tick
  \/ AggregateGapFilled

Spec == Init /\ [][Next]_vars

\* The three versions of the detail page's aggregation, side by side.
NextDetail ==
  \/ AggregateGapFilled
  \/ AggregateCumulative
  \/ AggregateAverages

SpecDetail == Init /\ [][NextDetail]_vars

\* The agency grid.
NextGrid ==
  \/ Tick
  \/ AggregateGrid

SpecGrid == Init /\ [][NextGrid]_vars

(***************************************************************************)
(* Page loads.  A component mounted by the router runs its effect once:   *)
(* it issues its requests one after the other, each continuation running  *)
(* to the next await or to the end of the handler, and sets its state.    *)
(* The components are the three versions of the detail page ("gapFilled", *)
(* "cumulative", "averages"), the agency grid ("grid"), its earlier       *)
(* version that shows the latest record ("latestGrid"), and the agency    *)
(* metrics chart ("chart").                                                *)
(***************************************************************************)
DetailComponents == {"gapFilled", "cumulative", "averages"}
ListComponents == {"grid", "latestGrid", "chart"}

\* The ids of the agencies table.
AgencyIds == { m.agency_id : m \in AgencyMetric }

\* A string column that is null.  Strings are sequences of characters.
NullString == <<"null">>

\* The rows of the agencies table, as .select('id, name, ...') returns them:
\* the two agencies that have metric rows and one that has none; a
\* display_name that is empty, short_names that are null.
agenciesData ==
  << [id |-> 1, name |-> <<"b">>, display_name |-> <<"A", "b">>,
      short_name |-> <<"A">>],
     [id |-> 2, name |-> <<"b">>, display_name |-> <<>>,
      short_name |-> NullString],
     [id |-> 3, name |-> <<"b">>, display_name |-> <<"A">>,
      short_name |-> <<"A", "A">>] >>

\* useParams() without an agencyId: undefined.
NoAgencyId == 0

\* /agencies/:agencyId for a detail page, which can also be rendered
\* without the parameter; the list pages take no parameter.
Routes ==
  { [component |-> c, agencyId |-> id] :
      c \in DetailComponents, id \in AgencyIds \cup {NoAgencyId} }
    \cup { [component |-> c, agencyId |-> NoAgencyId] : c \in ListComponents }

\* .eq('agency_id', parseInt(agencyId, 10))
ofAgency(rows, id) == \A i \in 1..Len(rows) : rows[i].agency_id = id

\* .gte('metrics_date', '2016-01-01')
fromStartYear(rows) ==
  \A i \in 1..Len(rows) :
    DateParse(rows[i].metrics_date) # NaN => DateParse(rows[i].metrics_date) >= 0

\* .order('metrics_date', { ascending: false }) : newest first; rows of one
\* date come in any order, and so does a row whose date does not parse.
newestFirst(rows) ==
  \A i, j \in 1..Len(rows) :
    (i < j /\ DateParse(rows[i].metrics_date) # NaN
           /\ DateParse(rows[j].metrics_date) # NaN)
      => DateParse(rows[i].metrics_date) >= DateParse(rows[j].metrics_date)

\* .order('metrics_date', { ascending: false }).limit(1) : no row, or one
\* row of the agency.
latestAnswers(r) ==
  {<<>>} \cup { <<m>> : m \in { x \in AgencyMetric : x.agency_id = r.agencyId } }

\* The history of an agency holds the row its latest-record query returned,
\* and no newer one; it is empty when that query found no row.
consistentWithLatest(rows) ==
  \/ "latest" \in failed
  \/ latestMetrics = <<>> /\ rows = <<>>
  \/ /\ latestMetrics # <<>>
     /\ \E i \in 1..Len(rows) : rows[i] = latestMetrics[1]
     /\ DateParse(latestMetrics[1].metrics_date) # NaN =>
          \A i \in 1..Len(rows) :
            DateParse(rows[i].metrics_date) # NaN =>
              DateParse(rows[i].metrics_date)
                <= DateParse(latestMetrics[1].metrics_date)

\* The arrays the metric query of a route can return.
Responses(r) ==
  CASE r.component = "gapFilled" ->
         { a \in MetricArrays :
             ofAgency(a, r.agencyId) /\ fromStartYear(a) /\ orderedByDate(a) }
    [] r.component = "cumulative" ->
         { a \in MetricArrays : ofAgency(a, r.agencyId) }
    [] r.component = "averages" ->
         { a \in MetricArrays :
             ofAgency(a, r.agencyId) /\ orderedByDate(a) /\ consistentWithLatest(a) }
    [] r.component = "grid" -> MetricArrays
    [] OTHER -> { a \in MetricArrays : newestFirst(a) }

(***************************************************************************)
(* JavaScript values the continuations handle.                             *)
(***************************************************************************)
\* A property that was never assigned.
Undefined == -3

\* v || w
orElse(v, w) == IF v \in {Null, Undefined, NaN, 0} THEN w ELSE v

\* The columns a query selects of a row.
select(row, columns) == [f \in columns |-> row[f]]

(***************************************************************************)
(* The fold of the cumulative version of the detail page: counts are      *)
(* summed, a score is replaced by the current record's when that is       *)
(* truthy, the year is the greatest seen.                                  *)
(***************************************************************************)
emptySummary ==
  [year |-> Undefined, word_count |-> Undefined, paragraph_count |-> Undefined,
   sentence_count |-> Undefined, section_count |-> Undefined,
   readability_score |-> Undefined, language_complexity_score |-> Undefined,
   simplicity_score |-> Undefined]

\* curr.readability_score || acc.readability_score
takeLatest(curr, acc) == orElse(curr, acc)

\* The callback of metricsData.reduce.
foldMetric(acc, curr) ==
  LET currYear == metricYear(curr)
  IN [year |->
        IF acc.year \in {Undefined, NaN, 0}
             \/ (currYear # NaN /\ currYear > acc.year)
        THEN currYear ELSE acc.year,
      word_count |-> orElse(acc.word_count, 0) + orElse(curr.word_count, 0),
      paragraph_count |->
        orElse(acc.paragraph_count, 0) + orElse(curr.paragraph_count, 0),
      sentence_count |->
        orElse(acc.sentence_count, 0) + orElse(curr.sentence_count, 0),
      section_count |->
        orElse(acc.section_count, 0) + orElse(curr.section_count, 0),
      readability_score |->
        takeLatest(curr.readability_score, acc.readability_score),
      language_complexity_score |->
        takeLatest(curr.language_complexity_score, acc.language_complexity_score),
      simplicity_score |->
        takeLatest(curr.simplicity_score, acc.simplicity_score)]

RECURSIVE foldFrom(_, _, _)
foldFrom(acc, rows, i) ==
  IF i > Len(rows) THEN acc ELSE foldFrom(foldMetric(acc, rows[i]), rows, i + 1)

\* metricsData.reduce(..., {} as AgencyMetric)
cumulativeMetrics(rows) == foldFrom(emptySummary, rows, 1)

(***************************************************************************)
(* The latest record per agency: the first record of each agency in the   *)
(* order of the response.                                                  *)
(***************************************************************************)
\* The index of the first row of an agency in an array.
firstIndexOf(rows, id) ==
  CHOOSE i \in 1..Len(rows) :
    rows[i].agency_id = id /\ \A j \in 1..(i - 1) : rows[j].agency_id # id

\* The agencies that have a row, in the order of their first rows.
RECURSIVE agenciesInOrder(_, _, _)
agenciesInOrder(seen, rows, i) ==
  IF i > Len(rows) THEN seen
  ELSE agenciesInOrder(
         IF \E k \in 1..Len(seen) : seen[k] = rows[i].agency_id
         THEN seen ELSE Append(seen, rows[i].agency_id),
         rows, i + 1)

\* The index of the row the forEach keeps for an agency: a row is stored
\* only if the map has no entry for its agency yet.
keptIndex(rows, id) == firstIndexOf(rows, id)

ChartColumns ==
  {"agency_id", "word_count", "paragraph_count", "sentence_count",
   "readability_score", "language_complexity_score", "simplicity_score"}

\* agencyMap.get(metric.agency_id) || `Agency ${metric.agency_id}`
agencyNameOf(id) ==
  IF \E k \in 1..Len(agenciesData) : agenciesData[k].id = id
  THEN agenciesData[CHOOSE k \in 1..Len(agenciesData) : agenciesData[k].id = id].name
  ELSE <<"A">>

\* Array.from(latestMetricsPerAgency.values()) of the chart.
latestMetricsPerAgency(rows) ==
  LET ids == agenciesInOrder(<<>>, rows, 1)
  IN [k \in 1..Len(ids) |->
        LET row == select(rows[keptIndex(rows, ids[k])], ChartColumns)
        IN [f \in ChartColumns \cup {"agency_name"} |->
              IF f = "agency_name" THEN agencyNameOf(ids[k]) ELSE row[f]]]

LatestGridColumns ==
  {"word_count", "paragraph_count", "sentence_count", "section_count",
   "readability_score", "language_complexity_score", "simplicity_score"}

\* The metricsMap of the earlier grid: the first row of each agency, and
\* its year.
latestMetricsMap(rows) ==
  [id \in { rows[i].agency_id : i \in 1..Len(rows) } |->
     LET row == rows[keptIndex(rows, id)]
     IN [f \in LatestGridColumns \cup {"year"} |->
           IF f = "year" THEN metricYear(row) ELSE row[f]]]

\* agenciesData.map(agency => ({ ...agency,
\*                               metrics: metricsMap.get(agency.id) || null }))
\* A null metrics is written <<>>, a record m is written <<m>>.
agenciesWithMetrics(map) ==
  [k \in 1..Len(agenciesData) |->
     [f \in DOMAIN agenciesData[k] \cup {"metrics"} |->
        IF f = "metrics"
        THEN IF agenciesData[k].id \in DOMAIN map
             THEN <<map[agenciesData[k].id]>> ELSE <<>>
        ELSE agenciesData[k][f]]]

(***************************************************************************)
(* The continuations of a load.  Each gives the state the component has   *)
(* when the continuation ends, as a record of the state it can set;       *)
(* thrown is the error the continuation threw, aggregated counts its      *)
(* aggregation calls.                                                      *)
(***************************************************************************)
\* The state as it is: nothing set, nothing thrown.
Shown ==
  [metricsData |-> metricsData, passed |-> passed, routine |-> routine,
   rangeEnd |-> rangeEnd, aggregatedMetrics |-> aggregatedMetrics,
   metricsMap |-> metricsMap, agencyRecord |-> agencyRecord,
   agencies |-> agencies, latestMetrics |-> latestMetrics,
   chartMetrics |-> chartMetrics, thrown |-> NoError, aggregated |-> 0]

\* What a component does with the error of a request: throw it to its
\* catch block, or console.warn and go on.
onError(component, need) ==
  CASE need = "agency" -> "throw"
    [] need = "latest" -> "warn"
    [] OTHER -> IF component \in {"gapFilled", "cumulative", "chart"}
                THEN "throw" ELSE "warn"

\* The request a component issues after the response to another, "done"
\* after the last.
nextNeed(component, need) ==
  CASE need = "agency" -> IF component = "averages" THEN "latest" ELSE "metrics"
    [] need = "latest" -> "metrics"
    [] OTHER -> "done"

\* The error state a component shows for a thrown request error.
messageOf(need) ==
  CASE need = "agency" -> "agencyError"
    [] need = "latest" -> "latestError"
    [] OTHER -> "metricsError"

\* The continuation also aggregates the history it has so far.
afterAgencyAggregating(component) ==
  { [Shown EXCEPT !.aggregated = 1, !.routine = component,
                  !.aggregatedMetrics = aggregateMetricsByYear(metricsData)] }

\* After the agency record or list has arrived: the per-year page calls
\* setAgency at once, the others keep the data in a local.
afterAgency(component) ==
  { [Shown EXCEPT !.agencyRecord = IF component = "averages" THEN "loaded" ELSE @] }

\* After the latest record has arrived: setLatestMetrics(metricsData[0])
\* when there is one.
afterLatest(data) ==
  { [Shown EXCEPT !.latestMetrics = IF Len(data) > 0 THEN <<data[1]>> ELSE @] }

\* The summary taken from the first entry of the series.
latestOfFirst(aggregated) ==
  LET latest == aggregated[1]
  IN [id |-> 0, agency_id |-> route.agencyId, metrics_date |-> now,
      word_count |-> latest.cumulative_word_count,
      paragraph_count |-> latest.cumulative_paragraph_count,
      sentence_count |-> latest.cumulative_sentence_count,
      combined_readability_score |-> latest.avg_combined_readability_score,
      flesch_reading_ease |-> latest.avg_flesch_reading_ease,
      smog_index_score |-> latest.avg_smog_index_score,
      automated_readability_score |-> latest.avg_automated_readability_score]

\* setLatestMetrics({...}) of the gap-filled page, from the last entry of
\* the series.
latestOfSeries(aggregated) ==
  LET latest == aggregated[Len(aggregated)]
  IN [id |-> 0, agency_id |-> route.agencyId, metrics_date |-> now,
      word_count |-> latest.cumulative_word_count,
      paragraph_count |-> latest.cumulative_paragraph_count,
      sentence_count |-> latest.cumulative_sentence_count,
      combined_readability_score |-> latest.avg_combined_readability_score,
      flesch_reading_ease |-> latest.avg_flesch_reading_ease,
      smog_index_score |-> latest.avg_smog_index_score,
      automated_readability_score |-> latest.avg_automated_readability_score]

\* The gap-filled page, once its metric rows have arrived.  Reading a
\* property of aggregated[-1] throws a TypeError.
fetchAgencyDataGapFilled(data) ==
  LET aggregated == aggregateMetricsByYear(data)
      set == [Shown EXCEPT !.agencyRecord = "loaded", !.metricsData = data,
                           !.passed = data, !.routine = "gapFilled",
                           !.rangeEnd = now, !.aggregatedMetrics = aggregated,
                           !.aggregated = 1]
  IN { IF aggregated = <<>>
       THEN [set EXCEPT !.thrown = "TypeError"]
       ELSE [set EXCEPT !.latestMetrics = <<latestOfSeries(aggregated)>>] }

\* The cumulative page, once its metric rows have arrived.
fetchAgencyDataCumulative(data) ==
  { [Shown EXCEPT !.agencyRecord = "loaded",
                  !.latestMetrics = <<cumulativeMetrics(data)>>,
                  !.metricsData = data, !.passed = data,
                  !.routine = "cumulative", !.aggregatedMetrics = aggregated,
                  !.aggregated = 1] :
      aggregated \in aggregateMetricsByYearCumulative(data) }

\* The per-year page, once its history has arrived.
fetchAgencyDataAverages(data) ==
  { [Shown EXCEPT !.metricsData = data, !.passed = data,
                  !.routine = "averages", !.aggregatedMetrics = aggregated,
                  !.aggregated = 1] :
      aggregated \in aggregateMetricsByYearAverages(data) }

\* The grid, once its metric rows have arrived.
fetchAgencies(data) ==
  { [Shown EXCEPT !.metricsData = sorted, !.passed = data, !.routine = "grid",
                  !.metricsMap = metricsMapOf(sorted),
                  !.agencies = agenciesWithMetrics(metricsMapOf(sorted)),
                  !.aggregated = 1] :
      sorted \in sortedMetrics(data) }

\* The earlier grid, once its metric rows have arrived.
fetchAgenciesLatest(data) ==
  { [Shown EXCEPT !.metricsData = data, !.passed = data, !.routine = "latestGrid",
                  !.metricsMap = latestMetricsMap(data),
                  !.agencies = agenciesWithMetrics(latestMetricsMap(data)),
                  !.aggregated = 1] }

\* The chart, once its metric rows have arrived.
fetchMetrics(data) ==
  { [Shown EXCEPT !.metricsData = data, !.passed = data, !.routine = "chart",
                  !.chartMetrics = latestMetricsPerAgency(data),
                  !.aggregated = 1] }

\* A component once its metric rows have arrived.
afterMetrics(component, data) ==
  CASE component = "gapFilled" -> fetchAgencyDataGapFilled(data)
    [] component = "cumulative" -> fetchAgencyDataCumulative(data)
    [] component = "averages" -> fetchAgencyDataAverages(data)
    [] component = "grid" -> fetchAgencies(data)
    [] component = "latestGrid" -> fetchAgenciesLatest(data)
    [] OTHER -> fetchMetrics(data)

\* A component whose metric query returned an error it only warns about:
\* the grids show the agencies with null metrics, the per-year page sets
\* nothing more.
withoutMetrics(component) ==
  { IF component \in {"grid", "latestGrid"}
    THEN [Shown EXCEPT !.agencies = agenciesWithMetrics(<<>>)]
    ELSE Shown }

\* The loading state once the handler has ended: finally { setLoading(false) }
loadingAfter(thrown) == FALSE

(***************************************************************************)
(* The actions of a load.                                                  *)
(***************************************************************************)
\* The state after construction of a mounted component.
InitLoad ==
  /\ tz \in TimeZones
  /\ now \in ClockYears
  /\ metricsData = <<>>
  /\ passed = <<>>
  /\ routine = "none"
  /\ rangeEnd = 0
  /\ aggregatedMetrics = NoResult
  /\ metricsMap = NoResult
  /\ \E r \in Routes : initialState(r)
  /\ analyzerClosed
  /\ countUpUnused
  /\ noLoads
  /\ gridViewInitial

\* The state a continuation leaves is set.
Apply(out) ==
  /\ metricsData' = out.metricsData
  /\ passed' = out.passed
  /\ routine' = out.routine
  /\ rangeEnd' = out.rangeEnd
  /\ aggregatedMetrics' = out.aggregatedMetrics
  /\ metricsMap' = out.metricsMap
  /\ agencyRecord' = out.agencyRecord
  /\ agencies' = out.agencies
  /\ latestMetrics' = out.latestMetrics
  /\ chartMetrics' = out.chartMetrics
  /\ aggregations' = aggregations + out.aggregated
  /\ error' = out.thrown

\* The handler ends, through its catch block if something was thrown:
\* setError(error.message), and finally setLoading(false).
Finish(out) ==
  /\ Apply(out)
  /\ loading' = loadingAfter(out.thrown # NoError)
  /\ pc' = "done"
  /\ UNCHANGED <<issued, requestedAfterFailure>>

\* await supabase.from(...)... : a request is issued and the handler waits.
Request(need, nowFailed) ==
  /\ issued' = [issued EXCEPT ![need] = @ + 1]
  /\ requestedAfterFailure' = (requestedAfterFailure \/ nowFailed # {})
  /\ pc' = need
  /\ loading' = loading

\* The response to the request for a data need arrives, with data or with
\* an error, and the handler goes on from its await.
Respond(need, ok, outcomes) ==
  LET component == route.component
      nowFailed == IF ok THEN failed ELSE failed \cup {need}
  IN /\ failed' = nowFailed
     /\ IF ~ok /\ onError(component, need) = "throw"
        THEN Finish([Shown EXCEPT !.thrown = messageOf(need)])
        ELSE \E out \in outcomes :
               IF out.thrown # NoError \/ nextNeed(component, need) = "done"
               THEN Finish(out)
               ELSE Apply(out) /\ Request(nextNeed(component, need), nowFailed)
     /\ UNCHANGED <<tz, now, route, appVars, gridViewVars, countUpVars, overlapVars>>

\* Whether the effect of a detail page calls fetchAgencyData when there is
\* no agencyId: the per-year page calls it always, the pages of part_006
\* only if (agencyId).
callsWithoutId(component) == component = "averages"

\* useEffect: without an agencyId, fetchAgencyData returns at once with
\* setError("No agency ID provided") and setLoading(false), if it is called
\* at all ("idle" when it is not).  Otherwise
\* fetchAgencyData() / fetchAgencies() / fetchMetrics() starts:
\* setLoading(true) and the first request.
StartLoad ==
  /\ pc = "mounted"
  /\ IF route.component \in DetailComponents /\ route.agencyId = NoAgencyId
     THEN /\ pc' = IF callsWithoutId(route.component) THEN "done" ELSE "idle"
          /\ error' = IF callsWithoutId(route.component)
                      THEN "No agency ID provided" ELSE error
          /\ loading' = IF callsWithoutId(route.component) THEN FALSE ELSE loading
          /\ UNCHANGED issued
     ELSE /\ loading' = TRUE
          /\ issued' = [issued EXCEPT !["agency"] = @ + 1]
          /\ pc' = "agency"
          /\ UNCHANGED error
  /\ UNCHANGED <<tz, now, metricsData, passed, routine, rangeEnd,
                 aggregatedMetrics, metricsMap, route, failed,
                 requestedAfterFailure, aggregations, agencyRecord, agencies,
                 latestMetrics, chartMetrics, appVars, gridViewVars, countUpVars, overlapVars>>

AgencyResponse ==
  /\ pc = "agency"
  /\ \E ok \in BOOLEAN : Respond("agency", ok, afterAgency(route.component))

LatestResponse ==
  /\ pc = "latest"
  /\ \E ok \in BOOLEAN :
       IF ok THEN \E data \in latestAnswers(route) :
                    Respond("latest", ok, afterLatest(data))
       ELSE Respond("latest", ok, {Shown})

MetricsResponse ==
  /\ pc = "metrics"
  /\ \E ok \in BOOLEAN :
       IF ok THEN \E data \in Responses(route) :
                    Respond("metrics", ok, afterMetrics(route.component, data))
       ELSE Respond("metrics", ok, withoutMetrics(route.component))

NextLoad ==
  \/ StartLoad
  \/ AgencyResponse
  \/ LatestResponse
  \/ MetricsResponse

SpecLoad == InitLoad /\ [][NextLoad]_vars

\* Every request that was issued is answered, and the handler goes on.
SpecLoadFair == SpecLoad /\ WF_vars(NextLoad)

(***************************************************************************)
(* Vocabulary of the properties.  The year of a record is the year the    *)
(* grouping extracts from it, metricYear; a year has records when some    *)
(* record of the array passed in has that year.                            *)
(***************************************************************************)
CountFields == {"word_count", "paragraph_count", "sentence_count"}

ScoreFields ==
  {"combined_readability_score", "flesch_reading_ease", "smog_index_score",
   "automated_readability_score"}

\* The output field holding the cumulative total of a count field.
CumulativeOf(f) ==
  CASE f = "word_count" -> "cumulative_word_count"
    [] f = "paragraph_count" -> "cumulative_paragraph_count"
    [] f = "sentence_count" -> "cumulative_sentence_count"

\* The output field holding the yearly average of a score field.
AverageOf(f) ==
  CASE f = "combined_readability_score" -> "avg_combined_readability_score"
    [] f = "flesch_reading_ease" -> "avg_flesch_reading_ease"
    [] f = "smog_index_score" -> "avg_smog_index_score"
    [] f = "automated_readability_score" -> "avg_automated_readability_score"

\* The records of the array whose year is y, in the order of the array.
RowsOfYear(rows, y) == SelectSeq(rows, LAMBDA r : metricYear(r) = y)

\* The sum of a count field over some records, a null counting as 0.
RECURSIVE SumOfCount(_, _)
SumOfCount(rows, f) ==
  IF rows = <<>> THEN 0
  ELSE SumOfCount(SubSeq(rows, 1, Len(rows) - 1), f) + OrZero(rows[Len(rows)][f])

\* The sum of a score field over some records, added up in their order, a
\* null counting as 0.
RECURSIVE SumOfScore(_, _)
SumOfScore(rows, f) ==
  IF rows = <<>> THEN FZero
  ELSE FAdd(SumOfScore(SubSeq(rows, 1, Len(rows) - 1), f),
            ToNumber(OrZero(rows[Len(rows)][f])))

\* The sum of the yearly totals of a count field over the first i entries.
RECURSIVE SumOfTotals(_, _, _)
SumOfTotals(series, f, i) ==
  IF i = 0 THEN 0 ELSE SumOfTotals(series, f, i - 1) + series[i][f]

\* The gap-filled aggregation has run and its result is in aggregatedMetrics.
GapFilledRan == routine = "gapFilled"

\* The positions of the series whose year has records.
YearsWithRecords ==
  { i \in 1..Len(aggregatedMetrics) :
      RowsOfYear(passed, aggregatedMetrics[i].year) # <<>> }

(***************************************************************************)
(* C1.  Over a range with startYear <= endYear the gap-filled aggregation *)
(* returns endYear - startYear + 1 entries, the i-th of them (from 0) for *)
(* the year startYear + i, whatever the records; the range runs from 2016 *)
(* to the year the clock showed at the call.                               *)
(***************************************************************************)
C1_GaplessYears ==
  (GapFilledRan /\ StartYear <= rangeEnd) =>
    /\ Len(aggregatedMetrics) = rangeEnd - StartYear + 1
    /\ \A i \in 1..Len(aggregatedMetrics) :
         aggregatedMetrics[i].year = StartYear + (i - 1)

\* A three-year series whose middle year has no record while its
\* neighbours have.
C1_Witness ==
  /\ GapFilledRan
  /\ rangeEnd = StartYear + 2
  /\ Len(aggregatedMetrics) = 3
  /\ YearsWithRecords = {1, 3}

(***************************************************************************)
(* C2.  Each cumulative count (word, paragraph, sentence) of the          *)
(* aggregated series is non-decreasing from one entry to the next.  It is *)
(* stated of the gap-filled series and of the cumulative variant's.        *)
(***************************************************************************)
C2_CumulativeNonDecreasing ==
  (routine \in {"gapFilled", "cumulative"}) =>
    \A i \in 1..(Len(aggregatedMetrics) - 1) : \A f \in CountFields :
      aggregatedMetrics[i][CumulativeOf(f)]
        <= aggregatedMetrics[i + 1][CumulativeOf(f)]

\* A gap-filled series that stays level over a gap year and then rises.
C2_Witness ==
  /\ GapFilledRan
  /\ Len(aggregatedMetrics) >= 3
  /\ aggregatedMetrics[1].cumulative_word_count > 0
  /\ aggregatedMetrics[2].cumulative_word_count
       = aggregatedMetrics[1].cumulative_word_count
  /\ aggregatedMetrics[3].cumulative_word_count
       > aggregatedMetrics[2].cumulative_word_count

(***************************************************************************)
(* C3.  In the gap-filled series the cumulative total of every entry is   *)
(* the sum of the yearly totals of that entry and all entries before it.  *)
(* In particular records of 100 and 50 words in 2016 and 30 words in 2018 *)
(* give, over 2016..2018, the totals 150, 0, 30 and the cumulative totals *)
(* 150, 150, 180.                                                          *)
(***************************************************************************)
\* The example's records: three rows, in any order, of 100 and 50 words in
\* the first year and 30 words two years later.
IsExample(rows) ==
  /\ Len(rows) = 3
  /\ \E i, j, k \in 1..3 :
       /\ {i, j, k} = {1, 2, 3}
       /\ metricYear(rows[i]) = StartYear /\ rows[i].word_count = 100
       /\ metricYear(rows[j]) = StartYear /\ rows[j].word_count = 50
       /\ metricYear(rows[k]) = StartYear + 2 /\ rows[k].word_count = 30

C3_RunningSum ==
  GapFilledRan =>
    /\ \A i \in 1..Len(aggregatedMetrics) : \A f \in CountFields :
         aggregatedMetrics[i][CumulativeOf(f)]
           = SumOfTotals(aggregatedMetrics, f, i)
    /\ (IsExample(passed) /\ rangeEnd = StartYear + 2) =>
         /\ [i \in 1..3 |-> aggregatedMetrics[i].word_count] = <<150, 0, 30>>
         /\ [i \in 1..3 |-> aggregatedMetrics[i].cumulative_word_count]
              = <<150, 150, 180>>

\* The example has been aggregated.
C3_Witness ==
  /\ GapFilledRan
  /\ IsExample(passed)
  /\ rangeEnd = StartYear + 2
  /\ aggregatedMetrics[3].cumulative_word_count = 180

(***************************************************************************)
(* C4.  An entry of the gap-filled series whose year has no record has    *)
(* yearly totals 0, the cumulative totals of the entry before it (0 for   *)
(* the first entry), and for every score the average of the nearest       *)
(* earlier entry whose year has records, or the default 0 when there is   *)
(* none.                                                                   *)
(***************************************************************************)
\* The nearest position before i whose year has records, 0 if none.
LastWithRecords(i) ==
  LET earlier == { j \in YearsWithRecords : j < i }
  IN IF earlier = {} THEN 0
     ELSE CHOOSE j \in earlier : \A k \in earlier : k <= j

C4_GapYearCarriesForward ==
  GapFilledRan =>
    \A i \in (1..Len(aggregatedMetrics)) \ YearsWithRecords :
      /\ \A f \in CountFields :
           /\ aggregatedMetrics[i][f] = 0
           /\ aggregatedMetrics[i][CumulativeOf(f)]
                = IF i = 1 THEN 0 ELSE aggregatedMetrics[i - 1][CumulativeOf(f)]
      /\ \A f \in ScoreFields :
           aggregatedMetrics[i][AverageOf(f)]
             = IF LastWithRecords(i) = 0 THEN FZero
               ELSE aggregatedMetrics[LastWithRecords(i)][AverageOf(f)]

\* A gap year after a year whose averages are not 0.
C4_Witness ==
  /\ GapFilledRan
  /\ Len(aggregatedMetrics) >= 2
  /\ 1 \in YearsWithRecords
  /\ 2 \notin YearsWithRecords
  /\ aggregatedMetrics[1].avg_flesch_reading_ease # FZero
  /\ aggregatedMetrics[2].avg_flesch_reading_ease
       = aggregatedMetrics[1].avg_flesch_reading_ease
  /\ aggregatedMetrics[2].cumulative_word_count > 0

(***************************************************************************)
(* C5.  For an empty record array every entry of the gap-filled series    *)
(* has yearly and cumulative totals 0 and every score at the default 0;   *)
(* over a one-year range the series is exactly one such entry.             *)
(***************************************************************************)
C5_EmptyInput ==
  (GapFilledRan /\ passed = <<>>) =>
    /\ \A i \in 1..Len(aggregatedMetrics) :
         /\ \A f \in CountFields :
              /\ aggregatedMetrics[i][f] = 0
              /\ aggregatedMetrics[i][CumulativeOf(f)] = 0
         /\ \A f \in ScoreFields : aggregatedMetrics[i][AverageOf(f)] = FZero
    /\ rangeEnd = StartYear => Len(aggregatedMetrics) = 1

\* The empty array aggregated over the one-year range.
C5_Witness ==
  /\ GapFilledRan
  /\ passed = <<>>
  /\ rangeEnd = StartYear
  /\ Len(aggregatedMetrics) = 1

(***************************************************************************)
(* C7.  For an entry of the gap-filled series whose year has records, the *)
(* average of every score is the sum of that score over the records of    *)
(* that year divided by their number.                                      *)
(***************************************************************************)
C7_YearAverageIsMean ==
  GapFilledRan =>
    \A i \in YearsWithRecords : \A f \in ScoreFields :
      LET ofYear == RowsOfYear(passed, aggregatedMetrics[i].year)
      IN aggregatedMetrics[i][AverageOf(f)]
           = FDiv(SumOfScore(ofYear, f), Len(ofYear))

\* A year with two records of different scores, among records of another
\* year.
C7_Witness ==
  /\ GapFilledRan
  /\ \E i \in YearsWithRecords :
       LET ofYear == RowsOfYear(passed, aggregatedMetrics[i].year)
       IN /\ Len(ofYear) = 2
          /\ Len(passed) = 3
          /\ ofYear[1].flesch_reading_ease # ofYear[2].flesch_reading_ease
          /\ aggregatedMetrics[i].avg_flesch_reading_ease
               # ToNumber(ofYear[1].flesch_reading_ease)

(***************************************************************************)
(* C6.  In every yearly series the total of a count field for a year is   *)
(* the sum of that field over all records whose date lies in that year,   *)
(* records of equal date included, and 0 for a year without records.  It  *)
(* is stated of the series of all three versions of the page.              *)
(***************************************************************************)
C6_YearTotalIsSum ==
  (routine \in {"gapFilled", "cumulative", "averages"}) =>
    \A i \in 1..Len(aggregatedMetrics) : \A f \in CountFields :
      aggregatedMetrics[i].year # NaN =>
        aggregatedMetrics[i][f]
          = SumOfCount(RowsOfYear(passed, aggregatedMetrics[i].year), f)

(***************************************************************************)
(* C8.  The gap-filled aggregation returns the same series for every      *)
(* order of the same records.                                              *)
(***************************************************************************)
\* The arrays that hold the rows of the array passed in, in every order.
Reorderings ==
  { [i \in DOMAIN passed |-> passed[p[i]]] : p \in Permutations(DOMAIN passed) }

\* The series is the one a call would return now.
Fresh == GapFilledRan /\ rangeEnd = now

C8_OrderIndependent ==
  Fresh =>
    \A other \in Reorderings : aggregateMetricsByYear(other) = aggregatedMetrics

\* C8, as amended.  For every order of the same records the series has the
\* same years and the same yearly and cumulative totals of every count; it
\* is the same series altogether when no year has more than two records.
\* (Number addition is commutative but not associative: three scores added
\* in another order can round to another sum.)
C8_OrderIndependentTotals ==
  Fresh =>
    \A series \in { aggregateMetricsByYear(other) : other \in Reorderings } :
      /\ Len(series) = Len(aggregatedMetrics)
      /\ \A i \in 1..Len(series) :
           /\ series[i].year = aggregatedMetrics[i].year
           /\ \A f \in CountFields :
                /\ series[i][f] = aggregatedMetrics[i][f]
                /\ series[i][CumulativeOf(f)]
                     = aggregatedMetrics[i][CumulativeOf(f)]
      /\ (\A i \in 1..Len(series) :
            Len(RowsOfYear(passed, series[i].year)) <= 2)
           => series = aggregatedMetrics

\* Three records of two years, of different word counts, aggregated, with
\* another order of them at hand.
C8_Witness ==
  /\ Fresh
  /\ Len(passed) = 3
  /\ YearsWithRecords = {1, 3}
  /\ passed[1].word_count # passed[2].word_count
  /\ \E other \in Reorderings : other # passed

(***************************************************************************)
(* C9.  Two calls of the gap-filled aggregation on the same records       *)
(* return the same series.                                                 *)
(***************************************************************************)
C9_SameInputSameOutput ==
  [][(GapFilledRan /\ StartYear <= rangeEnd /\ passed = metricsData
        /\ AggregateGapFilled)
       => aggregatedMetrics' = aggregatedMetrics]_vars

(***************************************************************************)
(* C10.  An aggregation routine leaves the array it is given as it was:   *)
(* the same rows in the same order.  It is stated of arrays whose dates   *)
(* all parse, for which the grid's sort has one outcome.                   *)
(***************************************************************************)
AllDatesParse(rows) ==
  \A i \in 1..Len(rows) : DateParse(rows[i].metrics_date) # NaN

C10_InputUntouched ==
  (routine # "none" /\ AllDatesParse(passed)) => metricsData = passed

(***************************************************************************)
(* The analyzer page (App).  The router passes the :metric parameter of   *)
(* the URL; a render computes selectedMetric and selectedMetricInfo from  *)
(* it; the effect runs after a render whose metric changed; the metric    *)
(* selector and the bars of the chart call the two handlers.              *)
(***************************************************************************)
\* Bars of the chart: the length of agencyData.
MaxAgencies == 6

\* The greatest size at which toggleAgencyTrend still adds an agency is
\* one less than this.
MaxTrend == 5

\* The metrics catalogue, in its order.
metricsCatalogue ==
  << [id |-> "wordCount",       name |-> "Word Count"],
     [id |-> "sentenceCount",   name |-> "Sentence Count"],
     [id |-> "paragraphCount",  name |-> "Paragraph Count"],
     [id |-> "sectionCount",    name |-> "Section Count"],
     [id |-> "subpartCount",    name |-> "Subpart Count"],
     [id |-> "totalAuthors",    name |-> "Total Authors"],
     [id |-> "revisionAuthors", name |-> "Revision Authors"],
     [id |-> "complexityScore", name |-> "Complexity Score"],
     [id |-> "simplicityScore", name |-> "Simplicity Score"] >>

MetricIds == { metricsCatalogue[i].id : i \in 1..Len(metricsCatalogue) }

\* The values useParams() can give for :metric: an id of the catalogue, a
\* path segment that is no id, or undefined.
MetricParams == MetricIds \cup {"bogus", "wordcount", NoMetric}

\* metric && metrics.some(m => m.id === metric)
inCatalogue(metric) ==
  /\ metric # NoMetric
  /\ \E i \in 1..Len(metricsCatalogue) : metricsCatalogue[i].id = metric

\* The URL's metric is used as it is.
selectedMetricUnchecked(metric) == metric

\* const selectedMetric = ... ? metric : 'wordCount'
selectedMetric(metric) ==
  IF inCatalogue(metric) THEN metric ELSE "wordCount"

\* metrics.find(m => m.id === id): the first entry with the id, written
\* <<entry>>, or undefined, written <<>>.
find(id) ==
  IF \E i \in 1..Len(metricsCatalogue) : metricsCatalogue[i].id = id
  THEN << metricsCatalogue[CHOOSE i \in 1..Len(metricsCatalogue) :
                             /\ metricsCatalogue[i].id = id
                             /\ \A j \in 1..(i - 1) : metricsCatalogue[j].id # id] >>
  ELSE <<>>

\* What a render of App computes from the URL's metric.
render(metric) ==
  [selectedMetric     |-> selectedMetric(metric),
   selectedMetricInfo |-> find(selectedMetric(metric))]

\* The agencies of the bar chart.  Their data is imported from
\* ./data/mockData; only their ids matter here.
agencyData == [index \in 1..MaxAgencies |-> [id |-> index]]

\* The size check admits a sixth agency.
toggleAgencyTrendInclusive(prev, agencyId) ==
  IF agencyId \in prev THEN prev \ {agencyId}
  ELSE IF Cardinality(prev) <= MaxTrend THEN prev \cup {agencyId}
  ELSE prev

\* The updater making room for the toggled agency when five are selected.
toggleAgencyTrendReplacing(prev, agencyId) ==
  IF agencyId \in prev THEN prev \ {agencyId}
  ELSE IF Cardinality(prev) < MaxTrend THEN prev \cup {agencyId}
  ELSE {agencyId}

\* The updater of toggleAgencyTrend: the next selection from the previous.
toggleAgencyTrend(prev, agencyId) ==
  IF agencyId \in prev THEN prev \ {agencyId}
  ELSE IF Cardinality(prev) < MaxTrend THEN prev \cup {agencyId}
  ELSE prev

\* The router mounts App for a URL: first render, effect scheduled.
mountApp(metric) ==
  /\ metricParam = metric
  /\ lastNavigate = "none"
  /\ selectedAgenciesForTrend = {}
  /\ effectPending = TRUE
  /\ rendered = render(metric)

InitApp ==
  /\ tz \in TimeZones
  /\ now \in ClockYears
  /\ metricsData = <<>>
  /\ passed = <<>>
  /\ routine = "none"
  /\ rangeEnd = 0
  /\ aggregatedMetrics = NoResult
  /\ metricsMap = NoResult
  /\ initialState(NoRoute)
  /\ \E metric \in MetricParams : mountApp(metric)
  /\ countUpUnused
  /\ noLoads
  /\ gridViewInitial

\* navigate(to): the router changes the URL, App renders again, and the
\* effect is scheduled when its dependency metric changed.
navigateTo(metric, how) ==
  /\ metricParam' = metric
  /\ lastNavigate' = how
  /\ rendered' = render(metric)
  /\ effectPending' = (effectPending \/ metric # metricParam)

\* The effect of App: a URL without metric or with an unknown one is
\* replaced by /wordCount.
MetricEffect ==
  /\ effectPending
  /\ IF ~inCatalogue(metricParam)
     THEN /\ metricParam' = "wordCount"
          /\ lastNavigate' = "replace"
          /\ rendered' = render("wordCount")
          /\ effectPending' = TRUE
     ELSE /\ effectPending' = FALSE
          /\ UNCHANGED <<metricParam, lastNavigate, rendered>>
  /\ UNCHANGED <<tz, now, metricsData, passed, routine, rangeEnd,
                 aggregatedMetrics, metricsMap, loadVars, gridViewVars, countUpVars, overlapVars,
                 selectedAgenciesForTrend>>

\* The user picks a metric in the selector: handleMetricSelect(newMetric).
\* Effects are flushed before a click is handled.
HandleMetricSelect ==
  /\ ~effectPending
  /\ \E newMetric \in MetricIds : navigateTo(newMetric, "push")
  /\ UNCHANGED <<tz, now, metricsData, passed, routine, rangeEnd,
                 aggregatedMetrics, metricsMap, loadVars, gridViewVars, countUpVars, overlapVars,
                 selectedAgenciesForTrend>>

\* The user edits the address bar or follows a link to /:metric or /.
OpenUrl ==
  /\ ~effectPending
  /\ \E metric \in MetricParams : navigateTo(metric, "push")
  /\ UNCHANGED <<tz, now, metricsData, passed, routine, rangeEnd,
                 aggregatedMetrics, metricsMap, loadVars, gridViewVars, countUpVars, overlapVars,
                 selectedAgenciesForTrend>>

\* The user clicks a bar: onBarClick(index).
BarClick ==
  /\ ~effectPending
  /\ \E index \in DOMAIN agencyData :
       selectedAgenciesForTrend' =
         toggleAgencyTrend(selectedAgenciesForTrend, agencyData[index].id)
  /\ UNCHANGED <<tz, now, metricsData, passed, routine, rangeEnd,
                 aggregatedMetrics, metricsMap, loadVars, gridViewVars, countUpVars, overlapVars,
                 metricParam, lastNavigate, effectPending, rendered>>

NextApp == MetricEffect \/ HandleMetricSelect \/ OpenUrl \/ BarClick

SpecApp == InitApp /\ [][NextApp]_vars

(***************************************************************************)
(* The view of the agency grid (AgenciesGrid): every render filters the   *)
(* agencies state by the search text and sorts a copy of the result by    *)
(* the selected metric; the two inputs of the page set the search text    *)
(* and the selected metric.                                                *)
(***************************************************************************)
\* Length of the search text.
MaxQuery == 3

\* The characters of the search text.
QueryChars == {"A", "b", " "}

\* The texts the search box can hold.
Queries == UNION { [1..n -> QueryChars] : n \in 0..MaxQuery }

\* The keys of metricOptions.
MetricKeys ==
  {"word_count", "sentence_count", "paragraph_count",
   "combined_readability_score", "flesch_reading_ease"}

\* s.toLowerCase()
toLowerCase(s) == [i \in 1..Len(s) |-> IF s[i] = "A" THEN "a" ELSE s[i]]

\* s || t on strings: null and '' are falsy.
orString(s, t) == IF s = NullString \/ s = <<>> THEN t ELSE s

\* s.includes(term)
includes(s, term) ==
  \E i \in 0..(Len(s) - Len(term)) : SubSeq(s, i + 1, i + Len(term)) = term

\* s.split(' '): the pieces between the spaces, empty ones included.
RECURSIVE splitFrom(_, _, _)
splitFrom(s, i, term) ==
  IF i > Len(s) THEN <<term>>
  ELSE IF s[i] = " " THEN <<term>> \o splitFrom(s, i + 1, <<>>)
  ELSE splitFrom(s, i + 1, Append(term, s[i]))

split(s) == splitFrom(s, 1, <<>>)

\* One matching term is enough.
someTerm(searchTerms, agencyName, shortName) ==
  \E k \in 1..Len(searchTerms) :
    includes(agencyName, searchTerms[k]) \/ includes(shortName, searchTerms[k])

\* searchTerms.every(term => agencyName.includes(term) || shortName.includes(term))
everyTerm(searchTerms, agencyName, shortName) ==
  \A k \in 1..Len(searchTerms) :
    includes(agencyName, searchTerms[k]) \/ includes(shortName, searchTerms[k])

\* The callback of agencies.filter.
keepsAgency(agency, query) ==
  LET searchTerms == split(toLowerCase(query))
      agencyName == toLowerCase(orString(agency.display_name, agency.name))
      shortName == toLowerCase(orString(agency.short_name, <<>>))
  IN everyTerm(searchTerms, agencyName, shortName)

\* agencies.filter(...)
filterBySearch(list, query) ==
  SelectSeq(list, LAMBDA agency : keepsAgency(agency, query))

\* a.metrics?.[selectedMetric] || 0, as a fraction [num, den]: a count is
\* an integer, a score a float.
metricValue(agency, key) ==
  IF agency.metrics = <<>> THEN [num |-> 0, den |-> 1]
  ELSE IF key \in {"word_count", "sentence_count", "paragraph_count"}
       THEN [num |-> agency.metrics[1][key], den |-> 1]
       ELSE [num |-> FNum(agency.metrics[1][key]),
             den |-> FDen(agency.metrics[1][key])]

\* The sign of x.
sign(x) == IF x > 0 THEN 1 ELSE IF x < 0 THEN 0 - 1 ELSE 0

\* return aValue - bValue: lowest to highest.
compareAscending(a, b, key) ==
  LET aValue == metricValue(a, key)
      bValue == metricValue(b, key)
  IN sign(aValue.num * bValue.den - bValue.num * aValue.den)

\* return bValue - aValue, as a sign.
compareAgencies(a, b, key) ==
  LET aValue == metricValue(a, key)
      bValue == metricValue(b, key)
  IN sign(bValue.num * aValue.den - aValue.num * bValue.den)

\* [...filteredAgencies].sort(compare): the sort is stable and the
\* comparator consistent.
RECURSIVE sortByMetric(_, _)
sortByMetric(list, key) ==
  IF list = <<>> THEN <<>>
  ELSE LET n == Len(list)
           front == sortByMetric(SubSeq(list, 1, n - 1), key)
           x == list[n]
           k == Cardinality({ i \in 1..(n - 1) :
                              compareAgencies(front[i], x, key) <= 0 })
       IN SubSeq(front, 1, k) \o <<x>> \o SubSeq(front, k + 1, n - 1)

\* A render of the grid for a search text and a selected metric; the
\* handlers leave the agencies state alone.
renderGrid(query, key) ==
  /\ filteredAgencies' = filterBySearch(agencies, query)
  /\ sortedAgencies' = sortByMetric(filteredAgencies', key)

\* The grid after a load in which both requests succeeded, for a response
\* of at most two rows whose dates parse, rendered with the initial search
\* text and metric.
InitGridView ==
  /\ tz \in TimeZones
  /\ now = StartYear
  /\ routine = "grid"
  /\ rangeEnd = 0
  /\ aggregatedMetrics = NoResult
  /\ \E data \in { a \in MetricArrays :
                     /\ Len(a) <= 2
                     /\ \A i \in 1..Len(a) : DateParse(a[i].metrics_date) # NaN } :
       \E sorted \in sortedMetrics(data) :
         \E map \in {metricsMapOf(sorted)} :
           \E shown \in {filterBySearch(agenciesWithMetrics(map), <<>>)} :
             /\ passed = data
             /\ metricsData = sorted
             /\ metricsMap = map
             /\ agencies = agenciesWithMetrics(map)
             /\ filteredAgencies = shown
             /\ sortedAgencies = sortByMetric(shown, "word_count")
  /\ route = [component |-> "grid", agencyId |-> NoAgencyId]
  /\ pc = "done"
  /\ loading = FALSE
  /\ error = NoError
  /\ issued = [n \in Needs |-> IF n = "latest" THEN 0 ELSE 1]
  /\ failed = {}
  /\ requestedAfterFailure = FALSE
  /\ aggregations = 1
  /\ agencyRecord = "null"
  /\ latestMetrics = NoResult
  /\ chartMetrics = NoResult
  /\ selectedMetricKey = "word_count"
  /\ searchQuery = <<>>
  /\ analyzerClosed
  /\ countUpUnused
  /\ noLoads

\* handleSearchChange: setSearchQuery(e.target.value), and the render.
HandleSearchChange ==
  /\ \E text \in Queries :
       /\ searchQuery' = text
       /\ renderGrid(text, selectedMetricKey)
  /\ UNCHANGED <<tz, now, metricsData, passed, routine, rangeEnd,
                 aggregatedMetrics, metricsMap, loadVars, appVars,
                 selectedMetricKey, countUpVars, overlapVars>>

\* handleMetricChange: setSelectedMetric(e.target.value), and the render.
HandleMetricChange ==
  /\ \E key \in MetricKeys :
       /\ selectedMetricKey' = key
       /\ renderGrid(searchQuery, key)
  /\ UNCHANGED <<tz, now, metricsData, passed, routine, rangeEnd,
                 aggregatedMetrics, metricsMap, loadVars, appVars,
                 searchQuery, countUpVars, overlapVars>>

NextGridView == HandleSearchChange \/ HandleMetricChange

SpecGridView == InitGridView /\ [][NextGridView]_vars

(***************************************************************************)
(* Vocabulary of the load properties.                                      *)
(***************************************************************************)
\* The load has ended and every request it issued returned data.
LoadedAll == pc = "done" /\ failed = {}

\* The agencies that have a row in an array.
AgenciesIn(rows) == { rows[i].agency_id : i \in 1..Len(rows) }

\* Row i of an array is a row of the agency, and no row of the agency has
\* a later date.
IsNewestOf(rows, id, i) ==
  /\ rows[i].agency_id = id
  /\ \A j \in 1..Len(rows) :
       rows[j].agency_id = id =>
         DateParse(rows[j].metrics_date) <= DateParse(rows[i].metrics_date)

\* The first of the newest rows of an agency, in the order of the array.
FirstNewestOf(rows, id) ==
  CHOOSE i \in 1..Len(rows) :
    IsNewestOf(rows, id, i) /\ \A j \in 1..(i - 1) : ~IsNewestOf(rows, id, j)

(***************************************************************************)
(* C11.  When the range of years is empty (the start year is after the    *)
(* end year) the gap-filled aggregation fails with an InvalidRangeError:  *)
(* the load ends with that error and no aggregation has returned a        *)
(* series, empty or not.                                                   *)
(***************************************************************************)
C11_InvalidRangeFails ==
  (route.component = "gapFilled" /\ LoadedAll /\ now < StartYear) =>
    /\ error = "InvalidRangeError"
    /\ aggregations = 0

(***************************************************************************)
(* C12.  When a record's date does not parse, the aggregation of the      *)
(* gap-filled and of the per-year page fails with a MalformedRecordError: *)
(* no series is returned, neither one without the record nor one with a   *)
(* NaN year.  It is stated for a range of years that is not empty.        *)
(***************************************************************************)
C12_MalformedRecordFails ==
  (route.component \in {"gapFilled", "averages"} /\ LoadedAll
     /\ StartYear <= now /\ ~AllDatesParse(passed)) =>
    /\ error = "MalformedRecordError"
    /\ aggregations = 0

(***************************************************************************)
(* C13.  The latest record shown for an agency is the first, in input     *)
(* order, of the agency's records of the greatest date, and it is the     *)
(* same record for every response that holds the same records.  It is     *)
(* stated of the chart, of the earlier grid and of the per-year page, for *)
(* records whose dates all parse.                                          *)
(***************************************************************************)
\* The latest record per agency the chart or the earlier grid shows for a
\* response, as a set of records.
LatestShownFor(rows) ==
  IF route.component = "chart"
  THEN { latestMetricsPerAgency(rows)[k] : k \in 1..Len(latestMetricsPerAgency(rows)) }
  ELSE { [id |-> id, metrics |-> latestMetricsMap(rows)[id]] : id \in AgenciesIn(rows) }

C13_LatestIsDetermined ==
  (LoadedAll /\ AllDatesParse(passed)) =>
    /\ route.component = "chart" =>
         /\ { chartMetrics[k].agency_id : k \in 1..Len(chartMetrics) }
              = AgenciesIn(passed)
         /\ \A k \in 1..Len(chartMetrics) :
              select(chartMetrics[k], ChartColumns)
                = select(passed[FirstNewestOf(passed, chartMetrics[k].agency_id)],
                         ChartColumns)
    /\ route.component = "latestGrid" =>
         /\ DOMAIN metricsMap = AgenciesIn(passed)
         /\ \A id \in DOMAIN metricsMap :
              select(metricsMap[id], LatestGridColumns)
                = select(passed[FirstNewestOf(passed, id)], LatestGridColumns)
    /\ route.component \in {"chart", "latestGrid"} =>
         \A other \in Reorderings :
           newestFirst(other) => LatestShownFor(other) = LatestShownFor(passed)
    /\ (route.component = "averages" /\ passed # <<>>) =>
         /\ latestMetrics = <<passed[FirstNewestOf(passed, route.agencyId)]>>
         /\ \A i \in 1..Len(passed) :
              IsNewestOf(passed, route.agencyId, i) => latestMetrics = <<passed[i]>>

(***************************************************************************)
(* C14.  When a request of a load has returned an error, the load ends    *)
(* with the error state set and nothing presented: no agency, no agency   *)
(* list, no series, no latest record.  It is stated of the gap-filled and *)
(* per-year detail pages and of the grid.                                  *)
(***************************************************************************)
C14_FailureFailsLoad ==
  (route.component \in {"gapFilled", "averages", "grid"}
     /\ pc = "done" /\ failed # {}) =>
    /\ error # NoError
    /\ agencyRecord = "null"
    /\ agencies = NoResult
    /\ aggregatedMetrics = NoResult
    /\ latestMetrics = NoResult

(***************************************************************************)
(* C15.  A load aggregates at most once, and only when its agency request *)
(* and its metric request have both been issued and answered.             *)
(***************************************************************************)
C15_AggregatesAfterRetrieval ==
  /\ aggregations <= 1
  /\ aggregations > 0 =>
       /\ issued["agency"] > 0
       /\ issued["metrics"] > 0
       /\ pc = "done"

\* The grid has aggregated the rows of two agencies.
C15_Witness ==
  /\ route.component = "grid"
  /\ pc = "done"
  /\ aggregations = 1
  /\ DOMAIN metricsMap = AgencyIds

(***************************************************************************)
(* C16.  A load requests each data need at most once, and issues no       *)
(* request after a request of it has returned an error.                    *)
(***************************************************************************)
C16_NoRetry ==
  /\ \A need \in Needs : issued[need] <= 1
  /\ ~requestedAfterFailure

(***************************************************************************)
(* C17.  A load that was started ends with loading = false, and with the  *)
(* error state set if a request returned an error or the handler threw.   *)
(* That the load ends is LoadEnds below; this is the state it ends in.    *)
(***************************************************************************)
C17_LoadSettles ==
  pc = "done" =>
    /\ loading = FALSE
    /\ failed # {} => error # NoError

\* Under SpecLoadFair every started load ends, with loading = false.
LoadEnds == (pc = "agency") ~> (pc = "done" /\ loading = FALSE)

(***************************************************************************)
(* C18.  The summary the cumulative detail page folds from an agency's    *)
(* records has, for each of the three scores, the value of the last       *)
(* record in input order whose value is not null; for each count the sum  *)
(* over the records; and for year the greatest year of a record.          *)
(***************************************************************************)
FoldCounts == {"word_count", "paragraph_count", "sentence_count", "section_count"}
FoldScores == {"readability_score", "language_complexity_score", "simplicity_score"}

\* The last row of an array whose value of a field is not null.
LastNonNull(rows, f) ==
  CHOOSE i \in 1..Len(rows) :
    rows[i][f] # Null /\ \A j \in (i + 1)..Len(rows) : rows[j][f] = Null

C18_FoldTakesLatest ==
  (route.component = "cumulative" /\ LoadedAll /\ passed # <<>>) =>
    /\ \A f \in FoldScores :
         (\E i \in 1..Len(passed) : passed[i][f] # Null) =>
           latestMetrics[1][f] = passed[LastNonNull(passed, f)][f]
    /\ \A f \in FoldCounts :
         latestMetrics[1][f] = SumOfCount(passed, f)
    /\ AllDatesParse(passed) =>
         /\ \E i \in 1..Len(passed) : latestMetrics[1].year = metricYear(passed[i])
         /\ \A i \in 1..Len(passed) : latestMetrics[1].year >= metricYear(passed[i])

(***************************************************************************)
(* C19.  After any sequence of bar clicks the selection for trend         *)
(* comparison holds at most 5 agencies.                                    *)
(***************************************************************************)
C19_AtMostFiveSelected == Cardinality(selectedAgenciesForTrend) <= 5

\* Five agencies are selected and a click on a sixth bar has left the
\* selection as it was.
TrendSelectionFull == Cardinality(selectedAgenciesForTrend) = MaxTrend

C19_Witness ==
  /\ TrendSelectionFull
  /\ \E index \in DOMAIN agencyData :
       /\ agencyData[index].id \notin selectedAgenciesForTrend
       /\ toggleAgencyTrend(selectedAgenciesForTrend, agencyData[index].id)
            = selectedAgenciesForTrend

(***************************************************************************)
(* C20.  The metric a render selects is always an id of the catalogue and *)
(* its info is found.  When the URL has no metric or one that is not in   *)
(* the catalogue, the render selects 'wordCount', and the next step of    *)
(* the page is the effect's navigate('/wordCount', replace); no handler   *)
(* runs on such a URL.                                                     *)
(***************************************************************************)
C20_SelectedMetricInCatalogue ==
  /\ [](/\ rendered.selectedMetric \in MetricIds
        /\ rendered.selectedMetricInfo # <<>>
        /\ rendered.selectedMetricInfo[1].id = rendered.selectedMetric
        /\ ~inCatalogue(metricParam) =>
             /\ rendered.selectedMetric = "wordCount"
             /\ effectPending)
  /\ [][~inCatalogue(metricParam) =>
          /\ metricParam' = "wordCount"
          /\ lastNavigate' = "replace"
          /\ rendered'.selectedMetric = "wordCount"]_vars

\* The page was opened on a URL whose metric is not in the catalogue and
\* the effect has replaced it.
C20_Witness ==
  /\ lastNavigate = "replace"
  /\ metricParam = "wordCount"
  /\ rendered.selectedMetricInfo = <<metricsCatalogue[1]>>
  /\ ~effectPending

(***************************************************************************)
(* C21.  A detail page shown without an agency id issues no request and   *)
(* ends with error = 'No agency ID provided' and loading = false.         *)
(***************************************************************************)
C21_NoAgencyId ==
  (route.component \in DetailComponents /\ route.agencyId = NoAgencyId
     /\ pc # "mounted") =>
    /\ \A need \in Needs : issued[need] = 0
    /\ error = "No agency ID provided"
    /\ loading = FALSE

(***************************************************************************)
(* C22.  After a load of the agency grid whose requests both succeeded,   *)
(* every fetched agency appears exactly once, in the order fetched; an    *)
(* agency without a metric record has metrics = null; for an agency with  *)
(* records each count total is the sum of the count over its records and  *)
(* the year is the year of its latest-dated record.                        *)
(***************************************************************************)
\* The records of an agency in an array, in the array's order.
RowsOfAgency(rows, id) == SelectSeq(rows, LAMBDA m : m.agency_id = id)

GridCounts == {"word_count", "paragraph_count", "sentence_count"}

\* Every fetched agency appears once, with null metrics exactly when it
\* has no record, and with the sums of its records' counts otherwise.
GridTotalsAreSums ==
  /\ Len(agencies) = Len(agenciesData)
  /\ \A k \in 1..Len(agencies) :
       /\ agencies[k].id = agenciesData[k].id
       /\ (agencies[k].metrics = <<>>)
            = (RowsOfAgency(passed, agencies[k].id) = <<>>)
       /\ agencies[k].metrics # <<>> =>
            \A f \in GridCounts :
              agencies[k].metrics[1][f]
                = SumOfCount(RowsOfAgency(passed, agencies[k].id), f)

\* The year shown for an agency is the year of one of its records that no
\* record of the agency with a date is later than.
GridYearIsLatest ==
  \A k \in 1..Len(agencies) :
    agencies[k].metrics # <<>> =>
      \E i \in 1..Len(passed) :
        /\ passed[i].agency_id = agencies[k].id
        /\ agencies[k].metrics[1].year = metricYear(passed[i])
        /\ \A j \in 1..Len(passed) :
             (passed[j].agency_id = agencies[k].id
                /\ DateParse(passed[j].metrics_date) # NaN) =>
               /\ DateParse(passed[i].metrics_date) # NaN
               /\ DateParse(passed[j].metrics_date)
                    <= DateParse(passed[i].metrics_date)

C22_GridTotals ==
  (route.component = "grid" /\ LoadedAll) =>
    /\ GridTotalsAreSums
    /\ GridYearIsLatest

\* The same for responses whose dates all parse.
GridTotalsWhenDatesParse ==
  (route.component = "grid" /\ LoadedAll /\ AllDatesParse(passed)) =>
    /\ GridTotalsAreSums
    /\ GridYearIsLatest

(***************************************************************************)
(* C23.  The list the grid displays is a permutation of the filtered list *)
(* in which no agency comes before one of a greater value of the selected *)
(* metric, an agency without metrics counting as 0; and no change of the  *)
(* selected metric or of the search text changes the fetched agencies.    *)
(***************************************************************************)
\* The value of a is not less than that of b.
NotLess(a, b, key) ==
  metricValue(a, key).num * metricValue(b, key).den
    >= metricValue(b, key).num * metricValue(a, key).den

C23_SortedView ==
  /\ [](/\ Len(sortedAgencies) = Len(filteredAgencies)
        /\ \E p \in Permutations(1..Len(filteredAgencies)) :
             \A i \in 1..Len(filteredAgencies) :
               sortedAgencies[i] = filteredAgencies[p[i]]
        /\ \A i, j \in 1..Len(sortedAgencies) :
             i < j => NotLess(sortedAgencies[i], sortedAgencies[j],
                              selectedMetricKey))
  /\ [][agencies' = agencies]_vars

\* A search and another metric are in force and the display order differs
\* from the fetched order.
C23_Witness ==
  /\ searchQuery # <<>>
  /\ selectedMetricKey = "flesch_reading_ease"
  /\ Len(filteredAgencies) >= 2
  /\ sortedAgencies # filteredAgencies
  /\ \E i, j \in 1..Len(sortedAgencies) :
       i < j /\ ~NotLess(sortedAgencies[j], sortedAgencies[i], selectedMetricKey)

(***************************************************************************)
(* C24.  The filtered list holds, in the fetched order, exactly the       *)
(* agencies for which every space-separated term of the lower-cased       *)
(* search text is a substring of the lower-cased display name (of the     *)
(* name when the display name is empty) or of the lower-cased short name; *)
(* with an empty search text it holds every agency.                        *)
(***************************************************************************)
\* The space-separated terms of a text: the pieces without a space that
\* reach from the start or a space to the end or a space.
Terms(q) ==
  { SubSeq(q, i + 1, j) : <<i, j>> \in
      { ij \in (0..Len(q)) \X (0..Len(q)) :
          /\ ij[1] <= ij[2]
          /\ \A k \in (ij[1] + 1)..ij[2] : q[k] # " "
          /\ ij[1] = 0 \/ q[ij[1]] = " "
          /\ ij[2] = Len(q) \/ q[ij[2] + 1] = " " } }

\* The name the search looks at, and the short name if there is one.
SearchedName(agency) ==
  IF agency.display_name \in {NullString, <<>>}
  THEN agency.name ELSE agency.display_name

MatchesSearch(agency, q) ==
  \A term \in Terms(toLowerCase(q)) :
    \/ includes(toLowerCase(SearchedName(agency)), term)
    \/ /\ agency.short_name # NullString
       /\ includes(toLowerCase(agency.short_name), term)

C24_SearchFilter ==
  /\ filteredAgencies
       = SelectSeq(agencies, LAMBDA agency : MatchesSearch(agency, searchQuery))
  /\ searchQuery = <<>> => filteredAgencies = agencies

\* Two terms are searched for and some agency, not every one, is kept.
C24_Witness ==
  /\ Cardinality(Terms(toLowerCase(searchQuery)) \ {<<>>}) = 2
  /\ filteredAgencies # <<>>
  /\ filteredAgencies # agencies

(***************************************************************************)
(* The count-up hook of the grid's metric display: useCountUp(endValue).   *)
(* Values are counted in steps of 1 / Scale, so that an endValue need not  *)
(* be a whole number; time is counted in animation frames.                 *)
(***************************************************************************)

\* The frames an animation lasts: duration, in frame intervals.
Duration == 2

\* The changes of endValue a run goes through.
MaxChanges == 2

\* Math.floor works on whole numbers: a whole number is Scale steps.
Scale == 2

\* The values the hook is given: 0, 1.5 and 4.
EndValues == {0, 3, 8}

\* Math.floor(x) of x = num / den steps.
MathFloor(num, den) == (num \div (den * Scale)) * Scale

\* Math.min((now - startTime) / duration, 1), as the frames elapsed.
progressOf(elapsed) == IF elapsed < Duration THEN elapsed ELSE Duration

\* easeOutQuad(t) = t * (2 - t) for t = elapsed / Duration, times Duration^2.
easeOutQuad(elapsed) == elapsed * (2 * Duration - elapsed)

\* Math.floor(startValue + (endValue - startValue) * easedProgress)
currentCountOf(callback) ==
  MathFloor(callback.startValue * Duration * Duration
              + (callback.endValue - callback.startValue)
                  * easeOutQuad(callback.elapsed),
            Duration * Duration)

\* The clock moves on by delta frames for every requested callback.
laterBy(callbacks, delta) ==
  { [c EXCEPT !.elapsed = progressOf(c.elapsed + delta)] : c \in callbacks }

\* The cleanup of an effect that forgets to cancel.
cleanupKeeping(callbacks, frame) == callbacks

\* The cleanup of an effect: if (frameRef.current)
\* cancelAnimationFrame(frameRef.current).
cleanup(callbacks, frame) ==
  IF frame # 0 THEN { c \in callbacks : c.id # frame } ELSE callbacks

\* The component mounts with some value: useState(0), useRef(0), useRef().
InitCountUp ==
  /\ tz \in TimeZones
  /\ now \in ClockYears
  /\ metricsData = <<>>
  /\ passed = <<>>
  /\ routine = "none"
  /\ rangeEnd = 0
  /\ aggregatedMetrics = NoResult
  /\ metricsMap = NoResult
  /\ initialState(NoRoute)
  /\ analyzerClosed
  /\ gridViewInitial
  /\ noLoads
  /\ endValue \in EndValues
  /\ countState = 0
  /\ countRef = 0
  /\ frameRef = 0
  /\ pendingFrames = {}
  /\ hookEffect = TRUE
  /\ effectGen = 0
  /\ nextFrame = 1
  /\ changes = 0
  /\ staleWrite = FALSE

\* The parent renders the display with another value; the effect's
\* dependency changed, so the effect is scheduled.
EndValueChange ==
  /\ changes < MaxChanges
  /\ \E value \in EndValues \ {endValue} : endValue' = value
  /\ hookEffect' = TRUE
  /\ changes' = changes + 1
  /\ UNCHANGED <<tz, now, metricsData, passed, routine, rangeEnd,
                 aggregatedMetrics, metricsMap, loadVars, appVars,
                 gridViewVars, countState, countRef, frameRef, pendingFrames,
                 effectGen, nextFrame, staleWrite, overlapVars>>

\* The effect runs: the cleanup of the effect before it, then startValue =
\* countRef.current and frameRef.current = requestAnimationFrame(updateCount).
RunCountUpEffect ==
  /\ hookEffect
  /\ hookEffect' = FALSE
  /\ effectGen' = effectGen + 1
  /\ frameRef' = nextFrame
  /\ nextFrame' = nextFrame + 1
  /\ pendingFrames' =
       (IF effectGen = 0 THEN pendingFrames
        ELSE cleanup(pendingFrames, frameRef))
         \cup {[id |-> nextFrame, gen |-> effectGen + 1,
                startValue |-> countRef, endValue |-> endValue,
                elapsed |-> 0]}
  /\ UNCHANGED <<tz, now, metricsData, passed, routine, rangeEnd,
                 aggregatedMetrics, metricsMap, loadVars, appVars,
                 gridViewVars, endValue, countState, countRef, changes,
                 staleWrite, overlapVars>>

\* The browser runs a requested callback, delta frames later: updateCount.
AnimationFrame ==
  \E callback \in pendingFrames, delta \in 1..Duration :
    LET running == [callback EXCEPT
                      !.elapsed = progressOf(callback.elapsed + delta)]
        others == laterBy(pendingFrames \ {callback}, delta)
        currentCount == currentCountOf(running)
    IN  /\ countRef' = currentCount
        /\ staleWrite' = (staleWrite \/ callback.gen # effectGen)
        /\ IF running.elapsed < Duration
           THEN /\ countState' = currentCount
                /\ frameRef' = nextFrame
                /\ nextFrame' = nextFrame + 1
                /\ pendingFrames' =
                     others \cup {[running EXCEPT !.id = nextFrame]}
           ELSE /\ countState' = callback.endValue
                /\ pendingFrames' = others
                /\ UNCHANGED <<frameRef, nextFrame>>
        /\ UNCHANGED <<tz, now, metricsData, passed, routine, rangeEnd,
                       aggregatedMetrics, metricsMap, loadVars, appVars,
                       gridViewVars, endValue, hookEffect, effectGen,
                       changes, overlapVars>>

NextCountUp == EndValueChange \/ RunCountUpEffect \/ AnimationFrame

\* Scheduled effects run and the browser keeps firing requested frames.
SpecCountUp ==
  /\ InitCountUp
  /\ [][NextCountUp]_vars
  /\ WF_vars(RunCountUpEffect)
  /\ WF_vars(AnimationFrame)

\* At most one callback is requested at any time.
OneFramePending == Cardinality(pendingFrames) <= 1

\* The animation has come to rest at the value the hook was given.
CountUpAtRest == countState = endValue /\ pendingFrames = {}

\* C26: at most one animation frame callback is requested at any time, no
\* callback writes the count after the effect that requested it was cleaned
\* up, and when frames keep firing the count shown ends up equal to the
\* endValue the hook was last given and stays equal to it.
C26_CountUp ==
  /\ [](OneFramePending /\ ~staleWrite)
  /\ <>[](countState = endValue)

\* The value changed twice, the second time while the animation towards the
\* first was running, and the count has come to rest at a value that is not
\* a whole number.
C26_Witness ==
  /\ changes = MaxChanges
  /\ effectGen = MaxChanges + 1
  /\ nextFrame > MaxChanges + 3
  /\ CountUpAtRest
  /\ endValue = 3

(***************************************************************************)
(* A detail page whose :agencyId changes while it is mounted.  The router  *)
(* keeps the component, so the effect with the dependency [agencyId] runs  *)
(* again and starts another fetchAgencyData; the run before it goes on.    *)
(* The data a response carries is that of the agency the run asked for,    *)
(* and a state is described by the id of the agency whose data it holds.   *)
(***************************************************************************)

\* The runs of fetchAgencyData one page goes through.
MaxLoads == 2

\* The states a run sets after the response for a need, given whether the
\* response has rows: the per-year page sets each state after its request,
\* the pages of part_006 set all of them after the metric request.
statesSet(component, need, hasRows) ==
  IF component = "averages"
  THEN CASE need = "agency" -> {"agency"}
         [] need = "latest" -> IF hasRows THEN {"latest"} ELSE {}
         [] OTHER -> {"series"}
  ELSE IF need = "metrics" THEN {"agency", "latest", "series"} ELSE {}

\* A detail page is mounted for some agency.
InitOverlap ==
  /\ tz \in TimeZones
  /\ now \in ClockYears
  /\ metricsData = <<>>
  /\ passed = <<>>
  /\ routine = "none"
  /\ rangeEnd = 0
  /\ aggregatedMetrics = NoResult
  /\ metricsMap = NoResult
  /\ \E r \in Routes :
       /\ r.component \in DetailComponents
       /\ r.agencyId # NoAgencyId
       /\ initialState(r)
  /\ analyzerClosed
  /\ countUpUnused
  /\ noLoads
  /\ gridViewInitial

\* The effect has run for the agencyId of the last render.
effectRan ==
  /\ inFlight # <<>>
  /\ inFlight[Len(inFlight)].agencyId = route.agencyId

\* The URL changes to another agency: useParams gives another agencyId.
ChangeAgencyId ==
  /\ effectRan
  /\ Len(inFlight) < MaxLoads
  /\ \E id \in AgencyIds \ {route.agencyId} :
       route' = [route EXCEPT !.agencyId = id]
  /\ UNCHANGED <<tz, now, metricsData, passed, routine, rangeEnd,
                 aggregatedMetrics, metricsMap, pc, loading, error, issued,
                 failed, requestedAfterFailure, aggregations, agencyRecord,
                 agencies, latestMetrics, chartMetrics, appVars, gridViewVars,
                 countUpVars, overlapVars>>

\* useEffect(..., [agencyId]): fetchAgencyData() starts, setLoading(true)
\* and the request for the agency.
RunLoadEffect ==
  /\ ~effectRan
  /\ inFlight' = Append(inFlight,
                        [agencyId |-> route.agencyId, at |-> "agency",
                         clean |-> TRUE])
  /\ loading' = TRUE
  /\ UNCHANGED <<tz, now, metricsData, passed, routine, rangeEnd,
                 aggregatedMetrics, metricsMap, route, pc, error, issued,
                 failed, requestedAfterFailure, aggregations, agencyRecord,
                 agencies, latestMetrics, chartMetrics, appVars, gridViewVars,
                 countUpVars, held>>

\* The response a run waits for arrives and the run goes on from its await
\* to the next one or to its end.
LoadResponse ==
  \E i \in DOMAIN inFlight, ok \in BOOLEAN, hasRows \in BOOLEAN :
    LET load == inFlight[i]
        need == load.at
        thrown == ~ok /\ onError(route.component, need) = "throw"
        next == IF thrown THEN "done" ELSE nextNeed(route.component, need)
        set == IF ok THEN statesSet(route.component, need, hasRows) ELSE {}
    IN  /\ need # "done"
        /\ need = "agency" => hasRows
        /\ ~ok => hasRows
        /\ held' = [state \in DOMAIN held |->
                      IF state \in set THEN load.agencyId ELSE held[state]]
        /\ inFlight' = [inFlight EXCEPT ![i] =
                          [agencyId |-> load.agencyId, at |-> next,
                           clean |-> load.clean /\ ok /\ hasRows]]
        /\ error' = IF thrown THEN messageOf(need) ELSE error
        /\ loading' = IF next = "done" THEN loadingAfter(thrown) ELSE loading
        /\ UNCHANGED <<tz, now, metricsData, passed, routine, rangeEnd,
                       aggregatedMetrics, metricsMap, route, pc, issued,
                       failed, requestedAfterFailure, aggregations,
                       agencyRecord, agencies, latestMetrics, chartMetrics,
                       appVars, gridViewVars, countUpVars>>

NextOverlap == ChangeAgencyId \/ RunLoadEffect \/ LoadResponse

SpecOverlap == InitOverlap /\ [][NextOverlap]_vars

\* Every run has ended, each with every response carrying rows and none an
\* error, and the last run is the one for the agencyId of the page.
AllLoadsCompleted ==
  /\ effectRan
  /\ \A i \in DOMAIN inFlight : inFlight[i].at = "done" /\ inFlight[i].clean

\* C25: once every load of a detail page has completed, the agency, the
\* latest metrics and the aggregated series in state are those of the
\* page's current agency id, also when the id changed while a load was in
\* flight.
C25_LateResponse ==
  AllLoadsCompleted =>
    \A state \in DOMAIN held : held[state] = route.agencyId

\* What does hold: the states are those of some agency the page asked for.
HeldWasRequested ==
  AllLoadsCompleted =>
    \A state \in DOMAIN held :
      \E i \in DOMAIN inFlight : held[state] = inFlight[i].agencyId

(***************************************************************************)
(* The summary of the gap-filled detail page.                              *)
(***************************************************************************)

\* The records whose year is one of first..last, in the order of the array.
RowsOfYears(rows, first, last) ==
  SelectSeq(rows, LAMBDA r : metricYear(r) \in first..last)

\* The gap-filled page has loaded and shows a summary.
GapFilledShown ==
  /\ route.component = "gapFilled"
  /\ LoadedAll
  /\ latestMetrics # NoResult

\* C27: on the gap-filled detail page the summary shown is the last entry
\* of the series, its counts are the sums over the records whose year lies
\* between 2016 and the current year, and every yearly and cumulative total
\* of the series is a sum over records of that range only.
C27_LatestIsLastEntry ==
  GapFilledShown =>
    LET last == aggregatedMetrics[Len(aggregatedMetrics)]
        shown == latestMetrics[1]
    IN  /\ \A f \in CountFields :
             /\ shown[f] = last[CumulativeOf(f)]
             /\ shown[f] = SumOfCount(RowsOfYears(passed, StartYear, rangeEnd), f)
        /\ \A f \in ScoreFields : shown[f] = last[AverageOf(f)]
        /\ \A i \in 1..Len(aggregatedMetrics) : \A f \in CountFields :
             LET entry == aggregatedMetrics[i]
             IN  /\ entry.year \in StartYear..rangeEnd
                 /\ entry[f] = SumOfCount(RowsOfYear(passed, entry.year), f)
                 /\ entry[CumulativeOf(f)]
                      = SumOfCount(RowsOfYears(passed, StartYear, entry.year), f)

\* A summary is shown for a record of a later year of the range and a
\* record outside the range.
C27_Witness ==
  /\ GapFilledShown
  /\ \E j, k \in 1..Len(passed) :
       /\ metricYear(passed[j]) \in (StartYear + 1)..rangeEnd
       /\ metricYear(passed[k]) \notin StartYear..rangeEnd
  /\ latestMetrics[1].word_count > aggregatedMetrics[1].cumulative_word_count

(***************************************************************************)
(* The cumulative aggregation and the gap-filled one, on the same records. *)
(***************************************************************************)

\* Every record has a year of the gap-filled range.
YearsInRange(rows) ==
  \A i \in 1..Len(rows) : metricYear(rows[i]) \in StartYear..now

\* No record has a null in the count field.
NonNull(rows, f) == \A i \in 1..Len(rows) : rows[i][f] # Null

\* The results of the two variants to compare: the one in state and what
\* the other variant returns for the same records.
GapFilledResults ==
  IF routine = "gapFilled" THEN {aggregatedMetrics}
  ELSE {aggregateMetricsByYear(passed)}

CumulativeResults ==
  IF routine = "cumulative" THEN {aggregatedMetrics}
  ELSE aggregateMetricsByYearCumulative(passed)

\* The series has exactly one entry per year of the records, in ascending
\* order of year.
OnePerYearAscending(series, rows) ==
  /\ { series[i].year : i \in 1..Len(series) }
       = { metricYear(rows[i]) : i \in 1..Len(rows) }
  /\ \A i, j \in 1..Len(series) : i < j => series[i].year < series[j].year

\* Each entry of the cumulative series has the totals of the gap-filled
\* entry of its year.
SameTotals(gap, cum, f) ==
  \A i \in 1..Len(cum) :
    \E j \in 1..Len(gap) :
      /\ gap[j].year = cum[i].year
      /\ gap[j][f] = cum[i][f]
      /\ gap[j][CumulativeOf(f)] = cum[i][CumulativeOf(f)]

\* C28: for records whose years all lie in the gap-filled range, the
\* cumulative variant returns one entry per year that has records, in
\* ascending order, and for each count field that is null in no record the
\* yearly and the cumulative total of each such year are the same in the
\* cumulative and in the gap-filled series.
C28_VariantsAgree ==
  (routine \in {"gapFilled", "cumulative"} /\ YearsInRange(passed)) =>
    \A gap \in GapFilledResults : \A cum \in CumulativeResults :
      /\ OnePerYearAscending(cum, passed)
      /\ \A f \in CountFields : NonNull(passed, f) => SameTotals(gap, cum, f)

\* The cumulative variant has aggregated records of two years of the
\* range, two of them of one year, with no null word count.
C28_Witness ==
  /\ routine = "cumulative"
  /\ YearsInRange(passed)
  /\ NonNull(passed, "word_count")
  /\ Len(passed) = 3
  /\ Len(aggregatedMetrics) = 2
  /\ aggregatedMetrics[2].cumulative_word_count
       > aggregatedMetrics[2].word_count

(***************************************************************************)
(* The frame of toggleAgencyTrend.                                         *)
(***************************************************************************)

\* The ids of the agencies whose bars can be clicked.
ChartAgencyIds == { agencyData[index].id : index \in DOMAIN agencyData }

\* What a toggle of each agency would make of the selection in state.
ToggleCases ==
  \A agencyId \in ChartAgencyIds :
    LET prev == selectedAgenciesForTrend
        next == toggleAgencyTrend(prev, agencyId)
    IN  /\ agencyId \in prev => agencyId \notin next
        /\ (agencyId \notin prev /\ Cardinality(prev) < 5) => agencyId \in next
        /\ (agencyId \notin prev /\ Cardinality(prev) = 5) => next = prev
        /\ \A other \in ChartAgencyIds \ {agencyId} :
             other \in next <=> other \in prev

\* A step that changes the selection removes one selected agency or adds
\* one unselected agency to fewer than five.
ToggleChangesOne ==
  selectedAgenciesForTrend' # selectedAgenciesForTrend =>
    \E agencyId \in ChartAgencyIds :
      \/ /\ agencyId \in selectedAgenciesForTrend
         /\ selectedAgenciesForTrend' = selectedAgenciesForTrend \ {agencyId}
      \/ /\ agencyId \notin selectedAgenciesForTrend
         /\ Cardinality(selectedAgenciesForTrend) < 5
         /\ selectedAgenciesForTrend'
              = selectedAgenciesForTrend \cup {agencyId}

\* C29: a toggle removes the agency when it is selected, adds it when it
\* is not and fewer than 5 are selected, and leaves the selection as it is
\* when it is not and 5 are selected; the membership of no other agency
\* changes, in any step.
C29_ToggleFrame == []ToggleCases /\ [][ToggleChangesOne]_vars

\* Five agencies are selected, the first bar's agency is not among them and
\* the last bar's is.
C29_Witness ==
  /\ Cardinality(selectedAgenciesForTrend) = 5
  /\ agencyData[1].id \notin selectedAgenciesForTrend
  /\ agencyData[MaxAgencies].id \in selectedAgenciesForTrend

====
